---- MODULE Spec2Model ----
(***************************************************************************)
(* A model of hazy-ipa: the snapshot / tree data model (lib.rs), the two   *)
(* snapshot builders (builders.rs), the generated ids (generate.rs), the   *)
(* cached language analyzer (cache.rs, analysis.rs) and the snapshot of a  *)
(* git tree (git.rs).                                                      *)
(*                                                                         *)
(* These specifications share the module:                                  *)
(*   SpecSB    - SnapshotBuilder: add_tree / with_id on arbitrary trees    *)
(*   SpecAddTree - SnapshotBuilder: add_tree with the result of each call  *)
(*               kept                                                      *)
(*   SpecRPB   - RelativePathBuilder: add_file / add_directory /           *)
(*               set_tree_id / build                                       *)
(*   SpecPaths - RelativePathBuilder: add_file / add_directory with the    *)
(*               result of each call kept                                  *)
(*   SpecCache - callers sharing one cache through CachedLanguageAnalyzer  *)
(*   SpecTree  - Tree: add_file / add_subdirectory, with the order of the  *)
(*               insertions and the result of each call kept               *)
(*   SpecReader - ID::generate_file_id_from_reader over a reader that      *)
(*               delivers its content in reads of any size                 *)
(*   SpecKeys  - a BTreeMap / HashMap cache keyed by Operation, under puts *)
(*               and gets of operations that differ in one field           *)
(*   SpecCacheFair - SpecCache with threads that go on running             *)
(*   SpecIds   - RelativePathBuilder: set_tree_id with each call kept      *)
(*   SpecGit   - Snapshot::from_git_tree over the trees of a repository    *)
(* Each leaves the variables of the others at their initial values.         *)
(***************************************************************************)
EXTENDS Naturals, Sequences, FiniteSets, TLC

(***************************************************************************)
(* Bounds of the model.                                                    *)
(***************************************************************************)
\* SpecSB: the identifiers <<1>> .. <<MaxID>> are the ids of trees and entries.
MaxID == 3

\* SpecSB: add_tree is called while the stored trees hold, together with the
\* tree being added, at most this many entries.
MaxEntries == 2

\* SpecAddTree: add_tree is called while the builder holds at most this many
\* trees.
MaxTrees == 1

\* SpecPaths: the paths given to add_directory and add_file have at most this
\* many components.
MaxDepth == 3

\* SpecPaths: add_directory and add_file are called while the pending
\* hierarchy holds fewer than this many entries.
MaxPending == 3

\* SpecRPB: set_tree_id is called while it leaves at most this many paths
\* with a recorded id.
MaxTreeIds == 2

\* SpecCache: the callers start at most this many perform_operation /
\* ensure_operation_performed calls in all.
MaxCalls == 2

\* SpecKeys: put is called on the map at most this many times.
MaxPuts == 3

\* SpecGit: the git trees of a repository have the oids 1 .. MaxOid.
MaxOid == 3

\* SpecReader: the reader holds at most this many bytes.
MaxContent == 3

\* SpecReader: the bytes of the buffer generate_file_id_from_reader reads
\* into (4096 in the source).
BufLen == 2

\* The entry names of the trees handed to add_tree (Vec<u8>, here one byte each).
Names == {<<1>>, <<2>>}

(***************************************************************************)
(* lib.rs: ID, EntryKind, TreeEntry, Tree, Snapshot                        *)
(***************************************************************************)
\* An ID is a String: a sequence of characters (numbers).  IDs are ordered as
\* strings are (derive(Ord) on ID(String)): lexicographically.
IDLess(a, b) ==
    LET differ == {i \in 1..(IF Len(a) < Len(b) THEN Len(a) ELSE Len(b)) : a[i] # b[i]}
    IN  IF differ = {} THEN Len(a) < Len(b)
        ELSE LET first == CHOOSE i \in differ : \A j \in 1..(i - 1) : a[j] = b[j]
             IN  a[first] < b[first]

EntryKind == {"File", "Tree"}

\* TreeEntry::file / TreeEntry::tree
TreeEntryFile(id) == [kind |-> "File", id |-> id]
TreeEntryTree(id) == [kind |-> "Tree", id |-> id]

\* Tree::new: a tree is its `entries` map, name -> TreeEntry.
TreeNew == <<>>

\* A map with one more key (BTreeMap::insert / HashMap::insert).
MapInsert(m, k, v) == [x \in (DOMAIN m) \cup {k} |-> IF x = k THEN v ELSE m[x]]

\* A mutant of TreeAddFile: the entry is given the name as its id.
TreeAddFile_IdOfName(tree, name, id) ==
    IF name \in DOMAIN tree
    THEN [ok |-> FALSE, tree |-> tree]
    ELSE [ok |-> TRUE, tree |-> MapInsert(tree, name, TreeEntryFile(name))]

\* Tree::add_file: Err(DuplicateEntry) when the name is taken, whatever its kind.
TreeAddFile(tree, name, id) ==
    IF name \in DOMAIN tree
    THEN [ok |-> FALSE, tree |-> tree]
    ELSE [ok |-> TRUE, tree |-> MapInsert(tree, name, TreeEntryFile(id))]

\* A mutant of TreeAddSubdirectory: the entry is added as a file.
TreeAddSubdirectory_AsFile(tree, name, id) ==
    IF name \in DOMAIN tree
    THEN [ok |-> FALSE, tree |-> tree]
    ELSE [ok |-> TRUE, tree |-> MapInsert(tree, name, TreeEntryFile(id))]

\* Tree::add_subdirectory
TreeAddSubdirectory(tree, name, id) ==
    IF name \in DOMAIN tree
    THEN [ok |-> FALSE, tree |-> tree]
    ELSE [ok |-> TRUE, tree |-> MapInsert(tree, name, TreeEntryTree(id))]

\* The keys of a BTreeMap / the elements of a BTreeSet of IDs, in iteration
\* order: ascending.
SortedIDs(S) ==
    LET sorted[T \in SUBSET S] ==
            IF T = {} THEN <<>>
            ELSE LET least == CHOOSE x \in T : \A y \in T : ~IDLess(y, x)
                 IN  <<least>> \o sorted[T \ {least}]
    IN  sorted[S]

\* Tree.entries again, now with the order its iterator walks it in: the
\* sequence of the map's (name, entry) pairs as BTreeMap keeps them.
BTreeContainsKey(entries, name) ==
    \E i \in 1..Len(entries) : entries[i].name = name

\* A mutant of BTreeInsert: the map keeps its pairs in the order they were
\* inserted in.
BTreeInsert_Push(entries, name, entry) ==
    Append(SelectSeq(entries, LAMBDA e : e.name # name),
           [name |-> name, entry |-> entry])

\* BTreeMap::insert: the pair goes between the pairs with smaller keys and
\* those with larger keys (Vec<u8> keys compare lexicographically); a pair
\* with the same key is replaced.
BTreeInsert(entries, name, entry) ==
    SelectSeq(entries, LAMBDA e : IDLess(e.name, name))
      \o <<[name |-> name, entry |-> entry]>>
      \o SelectSeq(entries, LAMBDA e : IDLess(name, e.name))

\* A mutant of OrderedTreeAddFile: the entry is inserted before the name is
\* looked up.
OrderedTreeAddFile_InsertsFirst(entries, name, id) ==
    IF BTreeContainsKey(entries, name)
    THEN [ok |-> FALSE, err |-> "DuplicateEntry",
          entries |-> BTreeInsert(entries, name, TreeEntryFile(id))]
    ELSE [ok |-> TRUE, err |-> "",
          entries |-> BTreeInsert(entries, name, TreeEntryFile(id))]

\* Tree::add_file on the ordered map, with the Result it returns.
OrderedTreeAddFile(entries, name, id) ==
    IF BTreeContainsKey(entries, name)
    THEN [ok |-> FALSE, err |-> "DuplicateEntry", entries |-> entries]
    ELSE [ok |-> TRUE, err |-> "",
          entries |-> BTreeInsert(entries, name, TreeEntryFile(id))]

\* Tree::add_subdirectory on the ordered map.
OrderedTreeAddSubdirectory(entries, name, id) ==
    IF BTreeContainsKey(entries, name)
    THEN [ok |-> FALSE, err |-> "DuplicateEntry", entries |-> entries]
    ELSE [ok |-> TRUE, err |-> "",
          entries |-> BTreeInsert(entries, name, TreeEntryTree(id))]

\* Tree::iter: the (name, entry) items, in the map's order.
TreeIter(entries) ==
    [i \in 1..Len(entries) |-> <<entries[i].name, entries[i].entry>>]

\* The map name -> TreeEntry an ordered map holds: what derive(PartialEq)
\* on Tree compares.
TreeOf(entries) ==
    [name \in {entries[i].name : i \in 1..Len(entries)} |->
        (CHOOSE e \in {entries[i] : i \in 1..Len(entries)} : e.name = name).entry]

(***************************************************************************)
(* builders.rs: SnapshotBuilder                                            *)
(***************************************************************************)
\* The outcome of a builder call that yields a snapshot: Ok(Snapshot{id, trees})
\* or Err(err).  "none": no call was made yet.
NoOutcome == [state |-> "none", err |-> "", id |-> <<>>, trees |-> <<>>]
OkSnapshot(id, trees) == [state |-> "ok", err |-> "", id |-> id, trees |-> trees]
Failure(err) == [state |-> "err", err |-> err, id |-> <<>>, trees |-> <<>>]

\* A mutant of SBAddTree: the check comes after the insert, which has
\* replaced the tree stored under the id.
SBAddTree_InsertsFirst(trees, id, tree) ==
    IF id \in DOMAIN trees
    THEN [ok |-> FALSE, err |-> "DuplicateTree", trees |-> MapInsert(trees, id, tree)]
    ELSE [ok |-> TRUE, err |-> "", trees |-> MapInsert(trees, id, tree)]

\* SnapshotBuilder::add_tree: Err(DuplicateTree) when the id is present, and
\* the map is then left as it was.
SBAddTree(trees, id, tree) ==
    IF id \in DOMAIN trees
    THEN [ok |-> FALSE, err |-> "DuplicateTree", trees |-> trees]
    ELSE [ok |-> TRUE, err |-> "", trees |-> MapInsert(trees, id, tree)]

\* with_id's `mentioned` set: the root id and the id of every Tree-kind entry
\* of every stored tree.
Mentioned(trees, id) ==
    {id} \cup UNION {{trees[t][n].id :
                          n \in {m \in DOMAIN trees[t] : trees[t][m].kind = "Tree"}} :
                     t \in DOMAIN trees}

\* A mutant of SBWithId: the closure check runs before the root is looked up.
SBWithId_ClosureFirst(trees, id) ==
    IF SortedIDs(DOMAIN trees) # SortedIDs(Mentioned(trees, id))
    THEN Failure("InconsistentTrees")
    ELSE IF id \notin DOMAIN trees THEN Failure("MissingTree")
    ELSE OkSnapshot(id, trees)

\* with_id with the kind test of line 85 left out: File entries count as mentions.
SBWithId_AnyKind(trees, id) ==
    IF id \notin DOMAIN trees THEN Failure("MissingTree")
    ELSE IF SortedIDs(DOMAIN trees) #
                SortedIDs({id} \cup UNION {{trees[t][n].id : n \in DOMAIN trees[t]} :
                                             t \in DOMAIN trees})
         THEN Failure("InconsistentTrees")
         ELSE OkSnapshot(id, trees)

\* with_id checking only that every mentioned tree is stored, not the converse.
SBWithId_DanglingOnly(trees, id) ==
    IF id \notin DOMAIN trees THEN Failure("MissingTree")
    ELSE IF ~(Mentioned(trees, id) \subseteq DOMAIN trees)
         THEN Failure("InconsistentTrees")
         ELSE OkSnapshot(id, trees)

\* with_id with `mentioned` seeded with every stored id instead of the root:
\* only dangling references are then rejected, and no orphan is.
SBWithId_SeedAll(trees, id) ==
    IF id \notin DOMAIN trees THEN Failure("MissingTree")
    ELSE IF SortedIDs(DOMAIN trees) #
                SortedIDs((DOMAIN trees) \cup Mentioned(trees, id))
         THEN Failure("InconsistentTrees")
         ELSE OkSnapshot(id, trees)

\* A mutant of SBWithId: the id of a File-kind entry must be that of a stored
\* tree as well.
SBWithId_FilesMustExist(trees, id) ==
    IF id \notin DOMAIN trees THEN Failure("MissingTree")
    ELSE IF \/ SortedIDs(DOMAIN trees) # SortedIDs(Mentioned(trees, id))
            \/ \E t \in DOMAIN trees : \E n \in DOMAIN trees[t] :
                   trees[t][n].kind = "File" /\ trees[t][n].id \notin DOMAIN trees
         THEN Failure("InconsistentTrees")
         ELSE OkSnapshot(id, trees)

\* SnapshotBuilder::with_id
SBWithId(trees, id) ==
    IF id \notin DOMAIN trees THEN Failure("MissingTree")
    ELSE IF SortedIDs(DOMAIN trees) # SortedIDs(Mentioned(trees, id))
         THEN Failure("InconsistentTrees")
         ELSE OkSnapshot(id, trees)

(***************************************************************************)
(* generate.rs: ID::generate_tree_id                                       *)
(***************************************************************************)
\* u64::to_ne_bytes: the eight bytes of n in the host's byte order (`le`:
\* the host is little-endian).
U64Bytes == 8

\* Byte k of n, byte 0 being the least significant.
RECURSIVE ByteOf(_, _)
ByteOf(n, k) == IF k = 0 THEN n % 256 ELSE ByteOf(n \div 256, k - 1)

ToNeBytes(n, le) ==
    IF n < 256
    THEN IF le THEN <<n, 0, 0, 0, 0, 0, 0, 0>> ELSE <<0, 0, 0, 0, 0, 0, 0, n>>
    ELSE [i \in 1..U64Bytes |-> ByteOf(n, IF le THEN i - 1 ELSE U64Bytes - i)]

\* The names of a tree in BTreeMap order (Vec<u8> is ordered as ID strings are).
SortedNames(S) == SortedIDs(S)

\* The bytes generate_tree_id feeds the hasher: for each entry in name order,
\* the name's length, the name, "F" or "T", the id's length, the id.
KindByte(kind) == IF kind = "File" THEN 70 ELSE 84

RECURSIVE HashInput(_, _, _)
HashInput(tree, names, le) ==
    IF names = <<>> THEN <<>>
    ELSE LET name == Head(names)
             entry == tree[name]
         IN  ToNeBytes(Len(name), le) \o name \o <<KindByte(entry.kind)>>
               \o ToNeBytes(Len(entry.id), le) \o entry.id
               \o HashInput(tree, Tail(names), le)

\* finalize_id("v0:", hasher).  SHA-256 is taken to be free of collisions: the
\* digest stands for the bytes hashed, and the character 0, which no caller's
\* id starts with here, stands for the "v0:" prefix.
FinalizeId(input) == <<0>> \o input

GenerateTreeId(tree, le) == FinalizeId(HashInput(tree, SortedNames(DOMAIN tree), le))

\* generate_tree_id over the ordered map: `for (name, entry) in tree` walks
\* the map in its own order.
OrderedNames(entries) == [i \in 1..Len(entries) |-> TreeIter(entries)[i][1]]

GenerateTreeIdIter(entries, le) ==
    FinalizeId(HashInput(TreeOf(entries), OrderedNames(entries), le))

(***************************************************************************)
(* lib.rs: Snapshot::render                                                *)
(***************************************************************************)
\* A mutant of KindStr: the variant's name as derive(Debug) writes it.
KindStr_Debug(kind) == kind

\* EntryKind::as_str
KindStr(kind) == IF kind = "File" THEN "file" ELSE "tree"

\* std::str::from_utf8(name) is Ok.  Names are taken to hold ASCII bytes, or
\* bytes from 128 up that form no UTF-8 text (multi-byte characters are not
\* modelled).
ValidUtf8(name) == \A i \in 1..Len(name) : name[i] < 128

\* <[u8]>::escape_ascii: the characters written for one byte, and for a name.
HexDigit(n) == IF n < 10 THEN 48 + n ELSE 87 + n
EscapeByte(b) ==
    IF b = 9 THEN <<92, 116>>
    ELSE IF b = 13 THEN <<92, 114>>
    ELSE IF b = 10 THEN <<92, 110>>
    ELSE IF b \in {39, 34, 92} THEN <<92, b>>
    ELSE IF b >= 32 /\ b <= 126 THEN <<b>>
    ELSE <<92, 120, HexDigit(b \div 16), HexDigit(b % 16)>>

RECURSIVE EscapeAscii(_)
EscapeAscii(name) ==
    IF name = <<>> THEN <<>> ELSE EscapeByte(Head(name)) \o EscapeAscii(Tail(name))

\* The name as fmt writes it (lines 292-303).
RenderName(name) == IF ValidUtf8(name) THEN name ELSE EscapeAscii(name)

\* The lines SnapshotRenderer::fmt writes, each the sequence of its fields
\* (the empty line is <<>>): "root {id}", and for each tree of the BTreeMap
\* an empty line, "tree {id}" and a line "  {name} {kind} {id}" for each
\* entry of its BTreeMap.
RECURSIVE RenderEntries(_, _)
RenderEntries(tree, names) ==
    IF names = <<>> THEN <<>>
    ELSE <<<<"  ", RenderName(Head(names)), KindStr(tree[Head(names)].kind),
             tree[Head(names)].id>>>>
           \o RenderEntries(tree, Tail(names))

RECURSIVE RenderTrees(_, _)
RenderTrees(trees, ids) ==
    IF ids = <<>> THEN <<>>
    ELSE <<<<>>, <<"tree", Head(ids)>>>>
           \o RenderEntries(trees[Head(ids)], SortedNames(DOMAIN trees[Head(ids)]))
           \o RenderTrees(trees, Tail(ids))

Render(id, trees) == <<<<"root", id>>>> \o RenderTrees(trees, SortedIDs(DOMAIN trees))

(***************************************************************************)
(* generate.rs: ID::generate_file_id, ID::generate_file_id_from_reader     *)
(***************************************************************************)
\* `let mut buf = [0u8; 4096]`, with BufLen bytes for the 4096.
NewBuf == [i \in 1..BufLen |-> 0]

\* r.read(&mut buf[..]) returning Ok(Len(chunk)): the bytes read overwrite
\* the front of the buffer, the rest of it keeps what it held.
ReadInto(buf, chunk) == chunk \o SubSeq(buf, Len(chunk) + 1, Len(buf))

\* A mutant of HasherUpdate: hasher.update(&buf[..]).
HasherUpdate_WholeBuffer(hasher, buf, bytes_read) == hasher \o buf

\* hasher.update(&buf[..bytes_read])
HasherUpdate(hasher, buf, bytes_read) == hasher \o SubSeq(buf, 1, bytes_read)

\* generate_file_id: the hasher is updated once, with the whole content.
GenerateFileId(content) == FinalizeId(HasherUpdate(<<>>, content, Len(content)))

\* What generate_file_id_from_reader returned: Ok(id) or Err(io::Error);
\* "none" while it has not returned.
NoFileId == [state |-> "none", id |-> <<>>]
OkFileId(id) == [state |-> "ok", id |-> id]
IoError == [state |-> "err", id |-> <<>>]

(***************************************************************************)
(* builders.rs: RelativePathBuilder                                        *)
(***************************************************************************)
\* A path is the sequence of its components (Utf8Path::components); a
\* component is a name or "..", written with 0 for the byte ".".
ParentDir == <<0, 0>>

\* Utf8Path::parent: None for the empty path, else the path without its last
\* component.
PathParent(path) ==
    IF path = <<>> THEN [some |-> FALSE, path |-> <<>>]
    ELSE [some |-> TRUE, path |-> SubSeq(path, 1, Len(path) - 1)]

\* A mutant of PathFileName: ".." counts as a name.
PathFileName_AcceptsParentDir(path) ==
    IF path = <<>> THEN [some |-> FALSE, name |-> <<>>]
    ELSE [some |-> TRUE, name |-> path[Len(path)]]

\* Utf8Path::file_name: the last component when it is a normal name.
PathFileName(path) ==
    IF path = <<>> \/ path[Len(path)] = ParentDir
    THEN [some |-> FALSE, name |-> <<>>]
    ELSE [some |-> TRUE, name |-> path[Len(path)]]

\* PendingTreeEntry::File(id) / PendingTreeEntry::Tree(tree).  A PendingTree is
\* its `entries` map, name -> PendingTreeEntry.
PendingFile(id) == [kind |-> "File", id |-> id, tree |-> <<>>]
PendingDir(tree) == [kind |-> "Tree", id |-> <<>>, tree |-> tree]

\* The pending directory reached from `tree` through the names of `at`.
RECURSIVE PendingAt(_, _)
PendingAt(tree, at) ==
    IF at = <<>> THEN tree ELSE PendingAt(tree[Head(at)].tree, Tail(at))

\* `tree` with `entry` inserted under `name` in the directory at `at`.
RECURSIVE PendingInsert(_, _, _, _)
PendingInsert(tree, at, name, entry) ==
    IF at = <<>> THEN MapInsert(tree, name, entry)
    ELSE [tree EXCEPT ![Head(at)] =
              PendingDir(PendingInsert(tree[Head(at)].tree, Tail(at), name, entry))]

\* What a builder call returns and leaves behind: Ok or Err(err), the pending
\* root after the call, and for containing_directory the place of the
\* directory it returns.
CallOk(root, at) == [ok |-> TRUE, err |-> "", root |-> root, at |-> at]
CallErr(err, root) == [ok |-> FALSE, err |-> err, root |-> root, at |-> <<>>]

\* RelativePathBuilder::containing_directory
RECURSIVE ContainingDirectory(_, _)
ContainingDirectory(root, full_path) ==
    LET parent == PathParent(full_path)
    IN  IF ~parent.some \/ parent.path = <<>> THEN CallOk(root, <<>>)
        ELSE LET grandparent == ContainingDirectory(root, parent.path)
                 parent_name == PathFileName(parent.path)
             IN  IF ~grandparent.ok THEN grandparent
                 ELSE IF ~parent_name.some
                 THEN CallErr("InvalidPath", grandparent.root)
                 ELSE LET entries == PendingAt(grandparent.root, grandparent.at)
                          here == Append(grandparent.at, parent_name.name)
                      IN  IF parent_name.name \notin DOMAIN entries
                          THEN CallOk(PendingInsert(grandparent.root, grandparent.at,
                                                    parent_name.name, PendingDir(<<>>)),
                                      here)
                          ELSE IF entries[parent_name.name].kind = "Tree"
                          THEN CallOk(grandparent.root, here)
                          ELSE CallErr("DuplicatePath", grandparent.root)

\* A mutant of RPBAddDirectory: a directory already under the name is
\* replaced by an empty one.
RPBAddDirectory_Replaces(root, full_path) ==
    LET parent == ContainingDirectory(root, full_path)
        child_name == PathFileName(full_path)
    IN  IF ~parent.ok THEN parent
        ELSE IF ~child_name.some THEN CallErr("InvalidPath", parent.root)
        ELSE LET entries == PendingAt(parent.root, parent.at)
             IN  IF child_name.name \in DOMAIN entries
                    /\ entries[child_name.name].kind = "File"
                 THEN CallErr("DuplicatePath", parent.root)
                 ELSE CallOk(PendingInsert(parent.root, parent.at, child_name.name,
                                           PendingDir(<<>>)), parent.at)

\* RelativePathBuilder::add_directory
RPBAddDirectory(root, full_path) ==
    LET parent == ContainingDirectory(root, full_path)
        child_name == PathFileName(full_path)
    IN  IF ~parent.ok THEN parent
        ELSE IF ~child_name.some THEN CallErr("InvalidPath", parent.root)
        ELSE LET entries == PendingAt(parent.root, parent.at)
             IN  IF child_name.name \notin DOMAIN entries
                 THEN CallOk(PendingInsert(parent.root, parent.at, child_name.name,
                                           PendingDir(<<>>)), parent.at)
                 ELSE IF entries[child_name.name].kind = "File"
                 THEN CallErr("DuplicatePath", parent.root)
                 ELSE CallOk(parent.root, parent.at)

\* A mutant of RPBAddFile: an entry already under the name is replaced.
RPBAddFile_Overwrites(root, full_path, id) ==
    LET parent == ContainingDirectory(root, full_path)
        child_name == PathFileName(full_path)
    IN  IF ~parent.ok THEN parent
        ELSE IF ~child_name.some THEN CallErr("InvalidPath", parent.root)
        ELSE CallOk(PendingInsert(parent.root, parent.at, child_name.name,
                                  PendingFile(id)), parent.at)

\* RelativePathBuilder::add_file
RPBAddFile(root, full_path, id) ==
    LET parent == ContainingDirectory(root, full_path)
        child_name == PathFileName(full_path)
    IN  IF ~parent.ok THEN parent
        ELSE IF ~child_name.some THEN CallErr("InvalidPath", parent.root)
        ELSE LET entries == PendingAt(parent.root, parent.at)
             IN  IF child_name.name \notin DOMAIN entries
                 THEN CallOk(PendingInsert(parent.root, parent.at, child_name.name,
                                           PendingFile(id)), parent.at)
                 ELSE CallErr("DuplicatePath", parent.root)

\* A mutant of RPBSetTreeId: an id already recorded for the path is kept.
RPBSetTreeId_KeepsFirst(tree_ids, full_path, id) ==
    IF full_path \in DOMAIN tree_ids THEN tree_ids
    ELSE MapInsert(tree_ids, full_path, id)

\* RelativePathBuilder::set_tree_id
RPBSetTreeId(tree_ids, full_path, id) == MapInsert(tree_ids, full_path, id)

\* The orders in which a HashMap with the keys S may yield its entries: all.
RECURSIVE Orders(_)
Orders(S) ==
    IF S = {} THEN {<<>>}
    ELSE UNION {{<<x>> \o rest : rest \in Orders(S \ {x})} : x \in S}

\* What build_tree returns and leaves behind: Ok(id) or Err(err), and the
\* built_trees map.  An error ends the build, which drops the map.
BuiltOk(id, built_trees) == [ok |-> TRUE, err |-> "", id |-> id, built_trees |-> built_trees]
BuiltErr(err) == [ok |-> FALSE, err |-> err, id |-> <<>>, built_trees |-> <<>>]

\* A mutant of BuildTreeFinish: when the id already stands for another tree,
\* the entries of the tree just built are added to that tree.
BuildTreeFinish_Merges(tree_ids, cfg, full_path, built_trees, built) ==
    IF full_path \notin DOMAIN tree_ids /\ ~cfg.generate
    THEN BuiltErr("MissingTreeID")
    ELSE LET id == IF full_path \in DOMAIN tree_ids
                   THEN tree_ids[full_path]
                   ELSE GenerateTreeId(built, cfg.le)
         IN  IF id \notin DOMAIN built_trees
             THEN BuiltOk(id, MapInsert(built_trees, id, built))
             ELSE BuiltOk(id, MapInsert(built_trees, id,
                                [n \in DOMAIN built_trees[id] \cup DOMAIN built |->
                                    IF n \in DOMAIN built THEN built[n]
                                    ELSE built_trees[id][n]]))

\* A mutant of BuildTreeFinish: when the id already stands for another tree,
\* the tree just built takes its place.
BuildTreeFinish_KeepLast(tree_ids, cfg, full_path, built_trees, built) ==
    IF full_path \notin DOMAIN tree_ids /\ ~cfg.generate
    THEN BuiltErr("MissingTreeID")
    ELSE LET id == IF full_path \in DOMAIN tree_ids
                   THEN tree_ids[full_path]
                   ELSE GenerateTreeId(built, cfg.le)
         IN  BuiltOk(id, MapInsert(built_trees, id, built))

\* A mutant of BuildTreeFinish: with `generate`, the computed id is used even
\* when set_tree_id recorded one for the path.
BuildTreeFinish_PrefersGenerated(tree_ids, cfg, full_path, built_trees, built) ==
    IF full_path \notin DOMAIN tree_ids /\ ~cfg.generate
    THEN BuiltErr("MissingTreeID")
    ELSE LET id == IF cfg.generate
                   THEN GenerateTreeId(built, cfg.le)
                   ELSE tree_ids[full_path]
         IN  IF id \notin DOMAIN built_trees
             THEN BuiltOk(id, MapInsert(built_trees, id, built))
             ELSE IF built_trees[id] # built
             THEN BuiltErr("InconsistentDirectories")
             ELSE BuiltOk(id, built_trees)

\* The end of build_tree refusing a tree that is already in built_trees
\* under another id: one id per content.
BuildTreeFinish_OneIdPerContent(tree_ids, cfg, full_path, built_trees, built) ==
    IF full_path \notin DOMAIN tree_ids /\ ~cfg.generate
    THEN BuiltErr("MissingTreeID")
    ELSE LET id == IF full_path \in DOMAIN tree_ids
                   THEN tree_ids[full_path]
                   ELSE GenerateTreeId(built, cfg.le)
         IN  IF \E other \in (DOMAIN built_trees) \ {id} : built_trees[other] = built
             THEN BuiltErr("InconsistentDirectories")
             ELSE IF id \notin DOMAIN built_trees
             THEN BuiltOk(id, MapInsert(built_trees, id, built))
             ELSE IF built_trees[id] # built
             THEN BuiltErr("InconsistentDirectories")
             ELSE BuiltOk(id, built_trees)

\* The end of build_tree with the comparison of line 315 left out: the tree
\* stored first under an id is kept, whatever the second one holds.
BuildTreeFinish_KeepFirst(tree_ids, cfg, full_path, built_trees, built) ==
    IF full_path \notin DOMAIN tree_ids /\ ~cfg.generate
    THEN BuiltErr("MissingTreeID")
    ELSE LET id == IF full_path \in DOMAIN tree_ids
                   THEN tree_ids[full_path]
                   ELSE GenerateTreeId(built, cfg.le)
         IN  IF id \notin DOMAIN built_trees
             THEN BuiltOk(id, MapInsert(built_trees, id, built))
             ELSE BuiltOk(id, built_trees)

\* The end of build_tree refusing an id that is already in built_trees, equal
\* tree or not: no directory is shared.
BuildTreeFinish_NoSharing(tree_ids, cfg, full_path, built_trees, built) ==
    IF full_path \notin DOMAIN tree_ids /\ ~cfg.generate
    THEN BuiltErr("MissingTreeID")
    ELSE LET id == IF full_path \in DOMAIN tree_ids
                   THEN tree_ids[full_path]
                   ELSE GenerateTreeId(built, cfg.le)
         IN  IF id \notin DOMAIN built_trees
             THEN BuiltOk(id, MapInsert(built_trees, id, built))
             ELSE BuiltErr("InconsistentDirectories")

\* The end of build_tree (lines 297-321): the id of the directory at
\* full_path, whose tree is `built`, and its entry in built_trees.
\* cfg.generate: the crate is compiled with the `generate` feature.
BuildTreeFinish(tree_ids, cfg, full_path, built_trees, built) ==
    IF full_path \notin DOMAIN tree_ids /\ ~cfg.generate
    THEN BuiltErr("MissingTreeID")
    ELSE LET id == IF full_path \in DOMAIN tree_ids
                   THEN tree_ids[full_path]
                   ELSE GenerateTreeId(built, cfg.le)
         IN  IF id \notin DOMAIN built_trees
             THEN BuiltOk(id, MapInsert(built_trees, id, built))
             ELSE IF built_trees[id] # built
             THEN BuiltErr("InconsistentDirectories")
             ELSE BuiltOk(id, built_trees)

\* build_tree: every result it can give for the pending directory `tree` at
\* full_path, one for each order in which the pending entries of each
\* directory can be visited.  BuildEntries is the loop of lines 280-295 over
\* the entries still to visit (`order`), `built` being the tree so far: its
\* results carry the tree in place of the id.
RECURSIVE BuildTree(_, _, _, _, _), BuildEntries(_, _, _, _, _, _, _)
BuildEntries(tree_ids, cfg, full_path, built_trees, tree, order, built) ==
    IF order = <<>> THEN {BuiltOk(built, built_trees)}
    ELSE LET name == Head(order)
             entry == tree[name]
         IN  IF entry.kind = "File"
             THEN LET added == TreeAddFile(built, name, entry.id)
                  IN  IF ~added.ok THEN {BuiltErr("TreeError")}
                      ELSE BuildEntries(tree_ids, cfg, full_path, built_trees, tree,
                                        Tail(order), added.tree)
             ELSE UNION {
                    IF ~child.ok THEN {child}
                    ELSE LET added == TreeAddSubdirectory(built, name, child.id)
                         IN  IF ~added.ok THEN {BuiltErr("TreeError")}
                             ELSE BuildEntries(tree_ids, cfg, full_path,
                                               child.built_trees, tree,
                                               Tail(order), added.tree) :
                    child \in BuildTree(tree_ids, cfg, Append(full_path, name),
                                        built_trees, entry.tree)}

BuildTree(tree_ids, cfg, full_path, built_trees, tree) ==
    UNION {
      {IF ~done.ok THEN done
       ELSE BuildTreeFinish(tree_ids, cfg, full_path, done.built_trees, done.id) :
       done \in BuildEntries(tree_ids, cfg, full_path, built_trees, tree, order, TreeNew)} :
      order \in Orders(DOMAIN tree)}

\* The loop of lines 253-256: built_trees.drain() into a new SnapshotBuilder.
\* The ids drained are distinct and the builder starts empty, so no add_tree
\* fails and the map built is the same in every drain order; one is taken.
RECURSIVE AddTrees(_, _)
AddTrees(sb, built_trees) ==
    IF DOMAIN built_trees = {} THEN [ok |-> TRUE, err |-> "", trees |-> sb]
    ELSE LET id == CHOOSE x \in DOMAIN built_trees : TRUE
             added == SBAddTree(sb, id, built_trees[id])
         IN  IF ~added.ok THEN added
             ELSE AddTrees(added.trees,
                           [x \in (DOMAIN built_trees) \ {id} |-> built_trees[x]])

\* RelativePathBuilder::build: the outcomes it can have.
RPBBuild(root, tree_ids, cfg) ==
    {IF ~r.ok THEN Failure(r.err)
     ELSE LET snapshot == AddTrees(<<>>, r.built_trees)
          IN  IF ~snapshot.ok THEN Failure(snapshot.err)
              ELSE SBWithId(snapshot.trees, r.id) :
     r \in BuildTree(tree_ids, cfg, <<>>, <<>>, root)}

(***************************************************************************)
(* cache.rs: the Cache implementations and the locks that share a cache    *)
(***************************************************************************)
\* Option<R>
None == [some |-> FALSE, value |-> 0]
Some(v) == [some |-> TRUE, value |-> v]

\* Result<R, E> of an analyzer call; Ok(()) carries the value 0.
Ok(v) == [ok |-> TRUE, value |-> v]
Err == [ok |-> FALSE, value |-> 0]

\* A mutant of CacheContains: NoCache reports every operation as present.
CacheContains_NoCacheHits(kind, c, op) == kind = "NoCache" \/ op \in DOMAIN c

\* Cache::contains of NoCache (always false) and of BTreeMap / HashMap
\* (contains_key); the two maps behave alike and are the one kind "Map".
CacheContains(kind, c, op) ==
    IF kind = "NoCache" THEN FALSE ELSE op \in DOMAIN c

\* A mutant of CacheGet: a hit yields the result 1 whatever is stored.
CacheGet_NotVerbatim(kind, c, op) ==
    IF kind = "NoCache" THEN None
    ELSE IF op \in DOMAIN c THEN Some(1) ELSE None

\* Cache::get of NoCache (always None) and of the maps (get(op).cloned()).
CacheGet(kind, c, op) ==
    IF kind = "NoCache" THEN None
    ELSE IF op \in DOMAIN c THEN Some(c[op]) ELSE None

\* A mutant of CachePut: a result already stored under the operation is kept.
CachePut_KeepsFirst(kind, c, op, result) ==
    IF kind = "NoCache" \/ op \in DOMAIN c THEN c ELSE MapInsert(c, op, result)

\* A mutant of CachePut: the result is dropped.
CachePut_Dropped(kind, c, op, result) == c

\* Cache::put of NoCache (nothing) and of the maps (insert(op.clone(), result)).
CachePut(kind, c, op, result) ==
    IF kind = "NoCache" THEN c ELSE MapInsert(c, op, result)

(***************************************************************************)
(* analysis.rs: Operation as the key of a map cache                        *)
(***************************************************************************)
\* derive(Ord) on EntryKind: the variants in the order they are declared.
EntryKindCmp(a, b) ==
    IF a = b THEN "Equal" ELSE IF a = "File" THEN "Less" ELSE "Greater"

\* derive(Ord) on ID(String)
IDCmp(a, b) ==
    IF IDLess(a, b) THEN "Less" ELSE IF IDLess(b, a) THEN "Greater" ELSE "Equal"

\* Ord of the analyzer's Additional type, here a number.
AdditionalCmp(a, b) ==
    IF a < b THEN "Less" ELSE IF b < a THEN "Greater" ELSE "Equal"

\* A mutant of OperationCmp: `additional` is not compared.
OperationCmp_IgnoresAdditional(a, b) ==
    IF EntryKindCmp(a.kind, b.kind) # "Equal" THEN EntryKindCmp(a.kind, b.kind)
    ELSE IDCmp(a.id, b.id)

\* derive(Ord) on Operation: the fields are compared in the order they are
\* declared, the first that differs decides.
OperationCmp(a, b) ==
    IF EntryKindCmp(a.kind, b.kind) # "Equal" THEN EntryKindCmp(a.kind, b.kind)
    ELSE IF IDCmp(a.id, b.id) # "Equal" THEN IDCmp(a.id, b.id)
    ELSE AdditionalCmp(a.additional, b.additional)

\* derive(PartialEq) on Operation: every field is equal.  (derive(Hash)
\* hashes the same fields, so equal operations fall into one bucket.)
OperationEq(a, b) ==
    a.kind = b.kind /\ a.id = b.id /\ a.additional = b.additional

\* The map caches with the operation as key, as the sequence of
\* (operation, result) pairs held: a BTreeMap finds a key by Ord and keeps
\* its pairs sorted, a HashMap finds it by Eq (its order is of no account;
\* the order of insertion is taken).
\* The place of the pair whose key is op; 0 when there is none.
KeyIndex(kind, entries, op) ==
    LET found == {i \in 1..Len(entries) :
                    IF kind = "BTreeMap" THEN OperationCmp(entries[i].op, op) = "Equal"
                    ELSE OperationEq(entries[i].op, op)}
    IN  IF found = {} THEN 0 ELSE CHOOSE i \in found : TRUE

\* Cache::get of the maps: self.get(op).cloned()
MapCacheGet(kind, entries, op) ==
    LET i == KeyIndex(kind, entries, op)
    IN  IF i = 0 THEN None ELSE Some(entries[i].result)

\* Cache::contains of the maps: self.contains_key(op)
MapCacheContains(kind, entries, op) == KeyIndex(kind, entries, op) # 0

\* Cache::put of the maps: self.insert(op.clone(), result).  insert replaces
\* the value of a key that is present and keeps the key.
MapCachePut(kind, entries, op, result) ==
    LET i == KeyIndex(kind, entries, op)
        pair == [op |-> op, result |-> result]
    IN  IF i # 0 THEN [entries EXCEPT ![i].result = result]
        ELSE IF kind = "BTreeMap"
        THEN SelectSeq(entries, LAMBDA e : OperationCmp(e.op, op) = "Less")
               \o <<pair>>
               \o SelectSeq(entries, LAMBDA e : OperationCmp(e.op, op) = "Greater")
        ELSE Append(entries, pair)

\* The state of the lock in Arc<Mutex<C>> / Arc<RwLock<C>>: the thread holding
\* it exclusively (0: none) and the threads holding it shared.
Unlocked == [writer |-> 0, readers |-> {}]

\* How each Cache method of the wrappers takes the lock: Mutex::lock for all
\* three; RwLock::read for contains and get, RwLock::write for put.
LockMode(lock_kind, method) ==
    IF lock_kind = "RwLock" /\ method \in {"contains", "get"} THEN "read" ELSE "write"

\* A mutant of CanLock: write() is granted while readers hold the lock.
CanLock_WriteAmongReaders(lock_kind, l, mode) ==
    lock_kind = "none" \/ l.writer = 0

\* lock() / read() / write() can return: a cache that is not wrapped takes no
\* lock; shared access needs no exclusive holder, exclusive access no holder.
CanLock(lock_kind, l, mode) ==
    \/ lock_kind = "none"
    \/ mode = "read" /\ l.writer = 0
    \/ mode = "write" /\ l.writer = 0 /\ l.readers = {}

\* The lock once lock() / read() / write() has returned its guard to thread t.
Locked(lock_kind, l, t, mode) ==
    IF lock_kind = "none" THEN l
    ELSE IF mode = "read" THEN [l EXCEPT !.readers = @ \cup {t}]
    ELSE [l EXCEPT !.writer = t]

\* A mutant of Unlock: the guard outlives the method that took it.
Unlock_KeepsGuard(lock_kind, l, t) == l

\* The guard of thread t is dropped: at the end of the statement that took it.
Unlock(lock_kind, l, t) ==
    IF lock_kind = "none" THEN l
    ELSE [writer |-> IF l.writer = t THEN 0 ELSE l.writer,
          readers |-> l.readers \ {t}]

\* A mutant of PerformHit: the cached value is ignored.
PerformHit_NeverHits(kind, c, op) == None

\* perform_operation, line 63: the cached value it returns, if any.
PerformHit(kind, c, op) == CacheGet(kind, c, op)

\* A mutant of EnsureHit: the operation counts as performed only when the
\* value cached for it is 1.
EnsureHit_ChecksValue(kind, c, op) ==
    CacheContains(kind, c, op) /\ c[op] = 1

\* ensure_operation_performed, line 76: whether it returns at once.
EnsureHit(kind, c, op) == CacheContains(kind, c, op)

(***************************************************************************)
(* State                                                                   *)
(***************************************************************************)
VARIABLES
    sb_trees,   \* SnapshotBuilder.trees: BTreeMap<ID, Tree>
    sb_last,    \* SpecAddTree: the last add_tree call and what it returned
    sb_arg,     \* the id with_id was called with
    sb_out,     \* what with_id returned (it consumes the builder; sb_trees
                \* keeps what the builder held at the call)
    rpb_root,       \* RelativePathBuilder.root: the pending hierarchy
    rpb_tree_ids,   \* RelativePathBuilder.tree_ids: HashMap<Utf8PathBuf, ID>
    rpb_cfg,        \* the build that runs: generate feature, host byte order
    rpb_last,       \* SpecPaths: the last add_directory / add_file call and
                    \* what it returned
    rpb_out,        \* what build returned (it consumes the builder; rpb_root
                    \* and rpb_tree_ids keep what the builder held)
    cache_kind,     \* the Cache implementation: "NoCache" or "Map"
    lock_kind,      \* how it is shared: "none", "Mutex" or "RwLock"
    cache,          \* the map of a BTreeMap / HashMap cache
    lock,           \* the state of the Mutex / RwLock
    th,             \* each caller's position in its current call
    history,        \* the calls that returned, in the order they returned
    t_entries,      \* Tree.entries: BTreeMap<Vec<u8>, TreeEntry>, as the
                    \* sequence of (name, entry) pairs its iterator yields
    t_inserted,     \* SpecTree: the names added so far, in the order of the
                    \* calls that added them
    t_last,         \* SpecTree: the last add_file / add_subdirectory call and
                    \* what it returned
    rd_content,     \* the bytes the reader holds in all
    rd_left,        \* the bytes the reader has not delivered yet
    rd_buf,         \* generate_file_id_from_reader's `buf`
    rd_hasher,      \* the bytes the Sha256 hasher was updated with, in order
    rd_reads,       \* how many bytes each read so far returned
    rd_out,         \* what generate_file_id_from_reader returned
    km_kind,        \* SpecKeys: the map used as a cache, "BTreeMap" or "HashMap"
    km_entries,     \* the (operation, result) pairs the map holds, in the
                    \* order it keeps them
    km_puts,        \* the put calls made on it, in order
    km_get,         \* the last get call made on it and what it returned
    git_repo,       \* SpecGit: the git trees of the repository, by oid
    trees_to_visit, \* from_git_tree's worklist: the oids of the trees on it
    trees_enqueued, \* the oids from_git_tree has put on the worklist so far
    git_out         \* what from_git_tree returned

sb_vars == <<sb_trees, sb_last, sb_arg, sb_out>>
rpb_vars == <<rpb_root, rpb_tree_ids, rpb_cfg, rpb_last, rpb_out>>
cache_vars == <<cache_kind, lock_kind, cache, lock, th, history>>
tree_vars == <<t_entries, t_inserted, t_last>>
reader_vars == <<rd_content, rd_left, rd_buf, rd_hasher, rd_reads, rd_out>>
keys_vars == <<km_kind, km_entries, km_puts, km_get>>
git_vars == <<git_repo, trees_to_visit, trees_enqueued, git_out>>
vars == <<sb_vars, rpb_vars, cache_vars, tree_vars, reader_vars, keys_vars, git_vars>>

(***************************************************************************)
(* SpecSB: a SnapshotBuilder driven with arbitrary trees and ids           *)
(***************************************************************************)
IDs == {<<i>> : i \in 1..MaxID}

TreeEntries == {[kind |-> k, id |-> i] : k \in EntryKind, i \in IDs}

\* Every tree a caller can have built with Tree::add_file / add_subdirectory
\* over Names and IDs.
AllTrees == UNION {[S -> TreeEntries] : S \in SUBSET Names}

RECURSIVE EntryCount(_)
EntryCount(trees) ==
    IF DOMAIN trees = {} THEN 0
    ELSE LET t == CHOOSE x \in DOMAIN trees : TRUE
         IN  Cardinality(DOMAIN trees[t])
               + EntryCount([x \in (DOMAIN trees) \ {t} |-> trees[x]])

\* An add_tree call with its arguments and the Result it returned; NoAddTree
\* before the first call.
AddedTree(id, tree, result) ==
    [id |-> id, tree |-> tree, ok |-> result.ok, err |-> result.err]
NoAddTree == [id |-> <<>>, tree |-> <<>>, ok |-> TRUE, err |-> ""]

\* SnapshotBuilder::new
SBNew ==
    /\ sb_trees = <<>>
    /\ sb_last = NoAddTree
    /\ sb_arg = <<>>
    /\ sb_out = NoOutcome

\* An add_directory / add_file call with its arguments (add_directory takes
\* no id) and the Result it returned; NoCall before the first call.
Called(call, full_path, id, result) ==
    [call |-> call, full_path |-> full_path, id |-> id,
     ok |-> result.ok, err |-> result.err]
NoCall == [call |-> "", full_path |-> <<>>, id |-> <<>>, ok |-> TRUE, err |-> ""]

\* RelativePathBuilder::new.  Only build reads the compile-time feature and the
\* host's byte order, so they are drawn when build runs.
RPBNew ==
    /\ rpb_root = <<>>
    /\ rpb_tree_ids = <<>>
    /\ rpb_cfg = [generate |-> FALSE, le |-> FALSE]
    /\ rpb_last = NoCall
    /\ rpb_out = NoOutcome

\* An add_file / add_subdirectory call on a Tree with its arguments and the
\* Result it returned; NoTreeCall before the first call.
TreeCalled(call, name, id, result) ==
    [call |-> call, name |-> name, id |-> id, ok |-> result.ok, err |-> result.err]
NoTreeCall == [call |-> "", name |-> <<>>, id |-> <<>>, ok |-> TRUE, err |-> ""]

\* Tree::new, no call made on it.
TreeUnused ==
    /\ t_entries = TreeNew
    /\ t_inserted = <<>>
    /\ t_last = NoTreeCall

\* generate_file_id_from_reader(r) entered with a reader over `content`:
\* a new hasher, a zeroed buffer, nothing read.
ReaderNew(content) ==
    /\ rd_content = content
    /\ rd_left = content
    /\ rd_buf = NewBuf
    /\ rd_hasher = <<>>
    /\ rd_reads = <<>>
    /\ rd_out = NoFileId

ReaderUnused == ReaderNew(<<>>)

\* The callers that share the cache, each through its own
\* CachedLanguageAnalyzer; a cache that is not behind a lock has one owner.
Threads == {1, 2}
Owner == CHOOSE t \in Threads : \A u \in Threads : t <= u

NoOperation == [kind |-> "", id |-> <<>>, additional |-> 0]
Idle == [pc |-> "idle", call |-> "", op |-> NoOperation, result |-> 0, seen |-> 0]

\* A get call on a map cache made after `after` puts, and what it returned;
\* NoGet before the first.
GetCalled(op, after, ret) == [called |-> TRUE, op |-> op, after |-> after, ret |-> ret]
NoGet == [called |-> FALSE, op |-> NoOperation, after |-> 0, ret |-> None]

\* BTreeMap::new / HashMap::new as a cache, no call made on it.
KeysNew(kind) ==
    /\ km_kind = kind
    /\ km_entries = <<>>
    /\ km_puts = <<>>
    /\ km_get = NoGet

KeysUnused == KeysNew("BTreeMap")

\* No repository is read: from_git_tree is not called.
GitUnused ==
    /\ git_repo = <<>>
    /\ trees_to_visit = <<>>
    /\ trees_enqueued = {}
    /\ git_out = NoOutcome

\* CachedLanguageAnalyzer::new(wrapped, cache) for every caller: the cache is
\* of kind ck, shared as lk and holds c; no call has been made.
CachedLanguageAnalyzerNew(ck, lk, c) ==
    /\ cache_kind = ck
    /\ lock_kind = lk
    /\ cache = c
    /\ lock = Unlocked
    /\ th = [t \in Threads |-> Idle]
    /\ history = <<>>

CacheUnused == CachedLanguageAnalyzerNew("NoCache", "none", <<>>)

InitSB == SBNew /\ RPBNew /\ CacheUnused /\ TreeUnused /\ ReaderUnused /\ KeysUnused /\ GitUnused

\* builder.add_tree(id, tree).  An Err(DuplicateTree) leaves the builder as it
\* was whatever the tree is, so one tree stands for all of them there.
AddTree ==
    /\ sb_out.state = "none"
    /\ \E id \in IDs :
         \E tree \in IF id \in DOMAIN sb_trees THEN {TreeNew}
                     ELSE {t \in AllTrees :
                             EntryCount(sb_trees) + Cardinality(DOMAIN t) <= MaxEntries} :
           sb_trees' = SBAddTree(sb_trees, id, tree).trees
    /\ UNCHANGED <<sb_last, sb_arg, sb_out, rpb_vars, cache_vars, tree_vars, reader_vars, keys_vars, git_vars>>

\* builder.with_id(id): the builder is consumed, the outcome is kept.
WithId ==
    /\ sb_out.state = "none"
    /\ \E id \in IDs :
         /\ sb_arg' = id
         /\ sb_out' = SBWithId(sb_trees, id)
    /\ UNCHANGED <<sb_trees, sb_last, rpb_vars, cache_vars, tree_vars, reader_vars, keys_vars, git_vars>>

NextSB == AddTree \/ WithId

SpecSB == InitSB /\ [][NextSB]_vars

(***************************************************************************)
(* Claims about SnapshotBuilder (checked under SpecSB)                     *)
(***************************************************************************)
\* The ids of the Tree-kind entries of the trees of a map.
TreeRefs(trees) ==
    {i \in UNION {{trees[t][n].id : n \in DOMAIN trees[t]} : t \in DOMAIN trees} :
        \E t \in DOMAIN trees : \E n \in DOMAIN trees[t] :
            trees[t][n] = [kind |-> "Tree", id |-> i]}

\* The ids of the Tree-kind entries of one tree.
Children(tree) == {tree[n].id : n \in {m \in DOMAIN tree : tree[m].kind = "Tree"}}

\* The stored trees reached from the ids of `seen` by following Tree-kind entries.
RECURSIVE ReachFrom(_, _)
ReachFrom(trees, seen) ==
    LET more == UNION {Children(trees[t]) : t \in seen \cap DOMAIN trees}
    IN  IF more \subseteq seen THEN seen ELSE ReachFrom(trees, seen \cup more)

\* No stored tree is reached from itself in one or more steps.
Acyclic(trees) ==
    \A t \in DOMAIN trees : t \notin ReachFrom(trees, Children(trees[t]))

\* C1: closure invariant.  In every Snapshot with_id returns, the stored tree
\* ids are exactly the root id together with the ids of all Tree-kind entries
\* of all stored trees: no orphan tree, no dangling reference.
C1_ClosureInvariant ==
    sb_out.state = "ok" =>
        DOMAIN sb_out.trees = {sb_out.id} \cup TreeRefs(sb_out.trees)

\* A returned snapshot in which the root refers to a second stored tree.
C1_Witness ==
    /\ sb_out.state = "ok"
    /\ Cardinality(DOMAIN sb_out.trees) >= 2
    /\ TreeRefs(sb_out.trees) \ {sb_out.id} # {}

\* C4: for a root id that was added, with_id fails with InconsistentTrees if a
\* stored tree is unreferenced or if a Tree-kind entry names an id with no
\* stored tree, and it succeeds exactly when the stored set equals the
\* referenced-plus-root set; the snapshot then holds the root and the trees.
C4_WithIdOutcome ==
    (sb_out.state # "none" /\ sb_arg \in DOMAIN sb_trees) =>
        LET stored == DOMAIN sb_trees
            referenced == {sb_arg} \cup TreeRefs(sb_trees)
        IN  /\ (stored \ referenced # {}) => sb_out = Failure("InconsistentTrees")
            /\ (referenced \ stored # {}) => sb_out = Failure("InconsistentTrees")
            /\ (stored = referenced) <=> sb_out.state = "ok"
            /\ sb_out.state = "ok" => sb_out = OkSnapshot(sb_arg, sb_trees)

\* with_id refused a builder that holds the root and a tree that only a
\* File-kind entry names.
C4_Witness ==
    /\ sb_out = Failure("InconsistentTrees")
    /\ sb_arg \in DOMAIN sb_trees
    /\ \E t \in (DOMAIN sb_trees) \ ({sb_arg} \cup TreeRefs(sb_trees)) :
          \E u \in DOMAIN sb_trees : \E n \in DOMAIN sb_trees[u] :
              sb_trees[u][n] = [kind |-> "File", id |-> t]

\* C5 as claimed: in every Snapshot with_id returns, every stored tree is
\* reached from the root id by following Tree-kind entries.
C5_AllReachableFromRoot ==
    sb_out.state = "ok" =>
        DOMAIN sb_out.trees = ReachFrom(sb_out.trees, {sb_out.id})

\* C5 as amended: every tree reached from the root is stored, and when no
\* stored tree is reached from itself every stored tree is reached from the
\* root (with_id accepts trees that only mention each other in a cycle).
C5_ReachableWhenAcyclic ==
    sb_out.state = "ok" =>
        /\ ReachFrom(sb_out.trees, {sb_out.id}) \subseteq DOMAIN sb_out.trees
        /\ Acyclic(sb_out.trees) =>
               DOMAIN sb_out.trees = ReachFrom(sb_out.trees, {sb_out.id})

\* A returned acyclic snapshot of three trees, one reached only through another.
C5_Witness ==
    /\ sb_out.state = "ok"
    /\ Acyclic(sb_out.trees)
    /\ Cardinality(DOMAIN sb_out.trees) = 3
    /\ Children(sb_out.trees[sb_out.id]) # (DOMAIN sb_out.trees) \ {sb_out.id}

(***************************************************************************)
(* SpecRPB: a RelativePathBuilder driven with arbitrary calls              *)
(***************************************************************************)
\* The names of files and directories, the ids given to files with add_file
\* and the ids given to directories with set_tree_id.
Segs == {<<1>>, <<2>>}
FileIDs == {<<1>>}
TreeIDs == {<<1>>, <<2>>}

\* The paths given to add_file and add_directory: up to two components, ".."
\* among them.
Components == Segs \cup {ParentDir}
InputPaths == {<<>>} \cup {<<a>> : a \in Components}
                \cup {<<a, b>> : a \in Components, b \in Components}

\* The paths given to set_tree_id: those build_tree can look up.
DirPaths == {<<>>} \cup {<<a>> : a \in Segs} \cup {<<a, b>> : a \in Segs, b \in Segs}

\* The builds of the crate: without the `generate` feature (the host's byte
\* order is then never read), and with it on a big- or little-endian host.
BuildConfigs == {[generate |-> FALSE, le |-> FALSE],
                 [generate |-> TRUE, le |-> FALSE],
                 [generate |-> TRUE, le |-> TRUE]}

InitRPB == SBNew /\ RPBNew /\ CacheUnused /\ TreeUnused /\ ReaderUnused /\ KeysUnused /\ GitUnused

AddDirectory ==
    /\ rpb_out.state = "none"
    /\ \E full_path \in InputPaths :
         rpb_root' = RPBAddDirectory(rpb_root, full_path).root
    /\ UNCHANGED <<rpb_tree_ids, rpb_cfg, rpb_last, rpb_out, sb_vars, cache_vars, tree_vars, reader_vars, keys_vars, git_vars>>

AddFile ==
    /\ rpb_out.state = "none"
    /\ \E full_path \in InputPaths, id \in FileIDs :
         rpb_root' = RPBAddFile(rpb_root, full_path, id).root
    /\ UNCHANGED <<rpb_tree_ids, rpb_cfg, rpb_last, rpb_out, sb_vars, cache_vars, tree_vars, reader_vars, keys_vars, git_vars>>

SetTreeId ==
    /\ rpb_out.state = "none"
    /\ \E full_path \in DirPaths, id \in TreeIDs :
         /\ Cardinality(DOMAIN RPBSetTreeId(rpb_tree_ids, full_path, id)) <= MaxTreeIds
         /\ rpb_tree_ids' = RPBSetTreeId(rpb_tree_ids, full_path, id)
    /\ UNCHANGED <<rpb_root, rpb_cfg, rpb_last, rpb_out, sb_vars, cache_vars, tree_vars, reader_vars, keys_vars, git_vars>>

Build ==
    /\ rpb_out.state = "none"
    /\ \E cfg \in BuildConfigs :
         /\ rpb_cfg' = cfg
         /\ rpb_out' \in RPBBuild(rpb_root, rpb_tree_ids, rpb_cfg')
    /\ UNCHANGED <<rpb_root, rpb_tree_ids, rpb_last, sb_vars, cache_vars, tree_vars, reader_vars, keys_vars, git_vars>>

NextRPB == AddDirectory \/ AddFile \/ SetTreeId \/ Build

SpecRPB == InitRPB /\ [][NextRPB]_vars

(***************************************************************************)
(* Claims about RelativePathBuilder (checked under SpecRPB)                *)
(***************************************************************************)
\* The paths of the pending directories of `tree`, itself (at `prefix`) included.
RECURSIVE PendingDirs(_, _)
PendingDirs(tree, prefix) ==
    {prefix} \cup
    UNION {PendingDirs(tree[n].tree, Append(prefix, n)) :
             n \in {m \in DOMAIN tree : tree[m].kind = "Tree"}}

\* What a pending directory resolves to when it is taken alone: its id and
\* its built tree, from the ids its sub-directories resolve to.  ok is FALSE
\* when it or a directory below it has no id (no recorded id, no `generate`).
RECURSIVE Resolved(_, _, _, _)
Resolved(tree_ids, cfg, path, tree) ==
    LET sub == [n \in DOMAIN tree |->
                   IF tree[n].kind = "Tree"
                   THEN Resolved(tree_ids, cfg, Append(path, n), tree[n].tree)
                   ELSE [ok |-> TRUE, id |-> tree[n].id, tree |-> <<>>]]
        built == [n \in DOMAIN tree |-> [kind |-> tree[n].kind, id |-> sub[n].id]]
    IN  [ok |-> /\ \A n \in DOMAIN tree : sub[n].ok
                /\ (path \in DOMAIN tree_ids \/ cfg.generate),
         id |-> IF path \in DOMAIN tree_ids THEN tree_ids[path]
                ELSE IF \A n \in DOMAIN tree : sub[n].ok
                THEN GenerateTreeId(built, cfg.le) ELSE <<>>,
         tree |-> built]

ResolvedAt(path) ==
    Resolved(rpb_tree_ids, rpb_cfg, path, PendingAt(rpb_root, path))

\* What every pending directory resolves to.
ResolvedAll == [d \in PendingDirs(rpb_root, <<>>) |-> ResolvedAt(d)]

\* Two distinct pending directories resolve to one id with different trees
\* (res: what each directory resolves to).
Conflict(res, p, q) ==
    /\ p # q
    /\ res[p].ok /\ res[q].ok
    /\ res[p].id = res[q].id
    /\ res[p].tree # res[q].tree

HasConflict ==
    LET res == ResolvedAll
    IN  \E p \in DOMAIN res : \E q \in DOMAIN res : Conflict(res, p, q)

\* C2 as claimed: when two pending directories at distinct paths resolve to
\* the same tree id with different built trees, build fails with
\* InconsistentDirectories.
C2_ConflictIsInconsistentDirectories ==
    (rpb_out.state # "none" /\ HasConflict) =>
        rpb_out = Failure("InconsistentDirectories")

\* C2 as amended: build then fails and returns no snapshot; the error is
\* InconsistentDirectories, or MissingTreeID when the crate is built without
\* `generate` and some pending directory has no recorded id (the traversal
\* may reach that directory first).
C2_ConflictFailsBuild ==
    (rpb_out.state # "none" /\ HasConflict) =>
        /\ rpb_out.state = "err"
        /\ rpb_out.err \in {"InconsistentDirectories", "MissingTreeID"}
        /\ rpb_out.err = "MissingTreeID" =>
              /\ ~rpb_cfg.generate
              /\ \E d \in PendingDirs(rpb_root, <<>>) : d \notin DOMAIN rpb_tree_ids

\* build refused, with InconsistentDirectories, two sibling directories that
\* were given the same id with set_tree_id and hold different entries.
C2_Witness ==
    /\ rpb_out = Failure("InconsistentDirectories")
    /\ LET res == ResolvedAll
       IN  \E p \in DOMAIN res : \E q \in DOMAIN res :
             /\ Conflict(res, p, q)
             /\ Len(p) = Len(q) /\ p # <<>>
             /\ p \in DOMAIN rpb_tree_ids /\ q \in DOMAIN rpb_tree_ids

\* The id a snapshot gives the directory at `path`: the root id, then the id
\* of the Tree-kind entry of each name of the path in turn.
RECURSIVE SnapshotIdAt(_, _, _)
SnapshotIdAt(trees, id, path) ==
    IF path = <<>> THEN [ok |-> id \in DOMAIN trees, id |-> id]
    ELSE IF /\ id \in DOMAIN trees
            /\ Head(path) \in DOMAIN trees[id]
            /\ trees[id][Head(path)].kind = "Tree"
         THEN SnapshotIdAt(trees, trees[id][Head(path)].id, Tail(path))
         ELSE [ok |-> FALSE, id |-> <<>>]

\* Two distinct pending directories with the same recursive content.
SameContent(p, q) ==
    p # q /\ PendingAt(rpb_root, p) = PendingAt(rpb_root, q)

\* The ids recorded with set_tree_id agree on p and q and below them: for each
\* path below, both have the same recorded id or both have none.
IdsAgree(p, q) ==
    \A s \in {<<>>} \cup {<<a>> : a \in Segs} :
        /\ (p \o s \in DOMAIN rpb_tree_ids) <=> (q \o s \in DOMAIN rpb_tree_ids)
        /\ (p \o s \in DOMAIN rpb_tree_ids) =>
               rpb_tree_ids[p \o s] = rpb_tree_ids[q \o s]

\* C3 as claimed: for two distinct directory paths with identical recursive
\* content, the snapshot build returns holds exactly one stored tree with that
\* content, referenced from both parent locations.
C3_OneTreePerContent ==
    rpb_out.state = "ok" =>
        \A p \in PendingDirs(rpb_root, <<>>) : \A q \in PendingDirs(rpb_root, <<>>) :
            SameContent(p, q) =>
                LET at_p == SnapshotIdAt(rpb_out.trees, rpb_out.id, p)
                    at_q == SnapshotIdAt(rpb_out.trees, rpb_out.id, q)
                IN  /\ at_p.ok /\ at_q.ok /\ at_p.id = at_q.id
                    /\ Cardinality({i \in DOMAIN rpb_out.trees :
                                      rpb_out.trees[i] = rpb_out.trees[at_p.id]}) = 1

\* C3 as amended: when the ids recorded with set_tree_id agree on the two
\* paths and below them (none recorded, with `generate`, is the usual case),
\* a snapshot that build returns gives both locations the same id, under
\* which it stores the directory's tree; and build does return a snapshot
\* when no id is recorded at all and `generate` is enabled.
C3_SharedTree ==
    rpb_out.state # "none" =>
        \A p \in PendingDirs(rpb_root, <<>>) : \A q \in PendingDirs(rpb_root, <<>>) :
            (SameContent(p, q) /\ IdsAgree(p, q)) =>
                /\ (rpb_cfg.generate /\ rpb_tree_ids = <<>>) => rpb_out.state = "ok"
                /\ rpb_out.state = "ok" =>
                     LET at_p == SnapshotIdAt(rpb_out.trees, rpb_out.id, p)
                         at_q == SnapshotIdAt(rpb_out.trees, rpb_out.id, q)
                     IN  /\ at_p.ok /\ at_q.ok /\ at_p.id = at_q.id
                         /\ rpb_out.trees[at_p.id] = ResolvedAt(p).tree

\* build returned a snapshot for a hierarchy with two non-empty directories of
\* identical content, which share one generated id.
C3_Witness ==
    /\ rpb_out.state = "ok"
    /\ rpb_cfg.generate
    /\ \E p \in PendingDirs(rpb_root, <<>>) : \E q \in PendingDirs(rpb_root, <<>>) :
          /\ SameContent(p, q) /\ IdsAgree(p, q)
          /\ PendingAt(rpb_root, p) # <<>>
          /\ p \notin DOMAIN rpb_tree_ids
          /\ SnapshotIdAt(rpb_out.trees, rpb_out.id, p).id =
                 SnapshotIdAt(rpb_out.trees, rpb_out.id, q).id

(***************************************************************************)
(* SpecCache: callers driving CachedLanguageAnalyzer over one cache        *)
(***************************************************************************)
\* The operations asked for: the same id as a file and as a tree.
Operations == {[kind |-> k, id |-> <<1>>, additional |-> 0] : k \in EntryKind}

\* The results an analyzer produces and a cache holds.
Results == {1, 2}

\* What the wrapped analyzer's perform_operation can return.  The snapshot id
\* is only handed on to it, so it is left out of the model.
WrappedOutcomes == {Err} \cup {Ok(v) : v \in Results}

\* The caches a CachedLanguageAnalyzer can be created over: NoCache, or a map
\* holding results of earlier runs for any of the operations.
InitialCaches(kind) ==
    IF kind = "NoCache" THEN {<<>>}
    ELSE UNION {[S -> Results] : S \in SUBSET Operations}

InitCache ==
    /\ SBNew /\ RPBNew /\ TreeUnused /\ ReaderUnused /\ KeysUnused /\ GitUnused
    /\ \E ck \in {"NoCache", "Map"}, lk \in {"none", "Mutex", "RwLock"} :
         \E c \in InitialCaches(ck) : CachedLanguageAnalyzerNew(ck, lk, c)

\* The calls started so far.
Started == Len(history) + Cardinality({t \in Threads : th[t].pc # "idle"})

\* A mutant of WrappedMethod: each method delegates to the wrapped
\* analyzer's method of the same name.
WrappedMethod_SameName(call) == call

\* The method of the wrapped analyzer a call invokes on a miss (lines 66 and
\* 79): perform_operation, from both methods.
WrappedMethod(call) == "perform_operation"

\* A call of thread t returns ret; `invoked` tells whether it called the
\* wrapped analyzer (its method `method`), which then returned `wrapped`.
Return(t, invoked, wrapped, ret) ==
    /\ history' = Append(history, [call |-> th[t].call, op |-> th[t].op,
                                   seen |-> th[t].seen, invoked |-> invoked,
                                   method |-> IF invoked THEN WrappedMethod(th[t].call)
                                              ELSE "",
                                   wrapped |-> wrapped, ret |-> ret])
    /\ th' = [th EXCEPT ![t] = Idle]

\* Thread t calls `call` (perform_operation or ensure_operation_performed).
Call(t, call, op) ==
    /\ th[t].pc = "idle"
    /\ Started < MaxCalls
    /\ lock_kind = "none" => t = Owner
    /\ th' = [th EXCEPT ![t] = [pc |-> "lookup", call |-> call, op |-> op,
                                result |-> 0, seen |-> Len(history)]]
    /\ UNCHANGED <<cache_kind, lock_kind, cache, lock, history, sb_vars, rpb_vars, tree_vars, reader_vars, keys_vars, git_vars>>

CallPerformOperation == \E t \in Threads, op \in Operations :
    Call(t, "perform_operation", op)

CallEnsureOperationPerformed == \E t \in Threads, op \in Operations :
    Call(t, "ensure_operation_performed", op)

\* The Cache method the call looks the operation up with (lines 63 and 76).
LookupMethod(call) == IF call = "perform_operation" THEN "get" ELSE "contains"

\* self.cache.get(op) / self.cache.contains(op) takes the lock.
LockForLookup == \E t \in Threads :
    /\ th[t].pc = "lookup"
    /\ LET mode == LockMode(lock_kind, LookupMethod(th[t].call))
       IN  /\ CanLock(lock_kind, lock, mode)
           /\ lock' = Locked(lock_kind, lock, t, mode)
    /\ th' = [th EXCEPT ![t].pc = "lookup_locked"]
    /\ UNCHANGED <<cache_kind, lock_kind, cache, history, sb_vars, rpb_vars, tree_vars, reader_vars, keys_vars, git_vars>>

\* The lookup itself, and the guard dropped as the method returns: on a hit
\* the call returns (lines 64 and 77), on a miss it goes on to the wrapped
\* analyzer.
Lookup == \E t \in Threads :
    /\ th[t].pc = "lookup_locked"
    /\ lock' = Unlock(lock_kind, lock, t)
    /\ IF th[t].call = "perform_operation"
       THEN LET cached == PerformHit(cache_kind, cache, th[t].op)
            IN  IF cached.some
                THEN Return(t, FALSE, Err, Ok(cached.value))
                ELSE th' = [th EXCEPT ![t].pc = "wrapped"] /\ UNCHANGED history
       ELSE IF EnsureHit(cache_kind, cache, th[t].op)
            THEN Return(t, FALSE, Err, Ok(0))
            ELSE th' = [th EXCEPT ![t].pc = "wrapped"] /\ UNCHANGED history
    /\ UNCHANGED <<cache_kind, lock_kind, cache, sb_vars, rpb_vars, tree_vars, reader_vars, keys_vars, git_vars>>

\* A mutant of ReturnsEarly: the call goes on to the put whatever the wrapped
\* analyzer returned.
ReturnsEarly_Never(out) == FALSE

\* The `?` applied to what the wrapped analyzer returned (lines 66 and 79):
\* an Err ends the call there.
ReturnsEarly(out) == ~out.ok

\* self.wrapped.perform_operation(snapshot_id, op)? returns (lines 66 and 79):
\* an error is returned to the caller, a result is kept for the put.
WrappedPerformOperation == \E t \in Threads :
    /\ th[t].pc = "wrapped"
    /\ \E out \in WrappedOutcomes :
         IF ReturnsEarly(out)
         THEN Return(t, TRUE, out, Err)
         ELSE th' = [th EXCEPT ![t].pc = "put", ![t].result = out.value]
              /\ UNCHANGED history
    /\ UNCHANGED <<cache_kind, lock_kind, cache, lock, sb_vars, rpb_vars, tree_vars, reader_vars, keys_vars, git_vars>>

\* self.cache.put(op, result) takes the lock.
LockForPut == \E t \in Threads :
    /\ th[t].pc = "put"
    /\ LET mode == LockMode(lock_kind, "put")
       IN  /\ CanLock(lock_kind, lock, mode)
           /\ lock' = Locked(lock_kind, lock, t, mode)
    /\ th' = [th EXCEPT ![t].pc = "put_locked"]
    /\ UNCHANGED <<cache_kind, lock_kind, cache, history, sb_vars, rpb_vars, tree_vars, reader_vars, keys_vars, git_vars>>

\* The put itself, the guard dropped, and the call returns (lines 68 and 81).
Put == \E t \in Threads :
    /\ th[t].pc = "put_locked"
    /\ cache' = CachePut(cache_kind, cache, th[t].op, th[t].result)
    /\ lock' = Unlock(lock_kind, lock, t)
    /\ Return(t, TRUE, Ok(th[t].result),
              IF th[t].call = "perform_operation" THEN Ok(th[t].result) ELSE Ok(0))
    /\ UNCHANGED <<cache_kind, lock_kind, sb_vars, rpb_vars, tree_vars, reader_vars, keys_vars, git_vars>>

NextCache ==
    \/ CallPerformOperation
    \/ CallEnsureOperationPerformed
    \/ LockForLookup
    \/ Lookup
    \/ WrappedPerformOperation
    \/ LockForPut
    \/ Put

SpecCache == InitCache /\ [][NextCache]_vars

(***************************************************************************)
(* Claims about CachedLanguageAnalyzer (checked under SpecCache)           *)
(***************************************************************************)
Calls == DOMAIN history

\* Call j started after call i had returned.
After(i, j) == i < j /\ history[j].seen >= i

\* The threads whose wrapped analyzer call is running or has returned a result.
Executing(op) ==
    {t \in Threads : th[t].op = op /\ th[t].pc \in {"wrapped", "put", "put_locked"}}

\* How many times the wrapped analyzer was invoked for op.
Executions(op) ==
    Cardinality({i \in Calls : history[i].op = op /\ history[i].invoked})
      + Cardinality(Executing(op))

\* What the wrapped analyzer has returned for op so far.
Observed(op) ==
    {history[i].wrapped : i \in {c \in Calls : history[c].op = op /\ history[c].invoked}}
      \cup {Ok(th[t].result) : t \in {u \in Threads : th[u].op = op
                                        /\ th[u].pc \in {"put", "put_locked"}}}

\* The wrapped analyzer has behaved as a deterministic one.
Deterministic == \A op \in Operations : Cardinality(Observed(op)) <= 1

\* Two perform_operation calls with the same operation, one after the other.
Twice(i, j) ==
    /\ After(i, j)
    /\ history[i].call = "perform_operation"
    /\ history[j].call = "perform_operation"
    /\ history[i].op = history[j].op

InvokedIn(i) == IF history[i].invoked THEN 1 ELSE 0

\* C6 as claimed: with a deterministic wrapped analyzer, two successive
\* perform_operation calls with the same operation invoke the wrapped
\* analyzer exactly once between them and return equal results.
C6_TwiceInvokesOnce ==
    Deterministic =>
        \A i \in Calls : \A j \in Calls :
            Twice(i, j) =>
                /\ InvokedIn(i) + InvokedIn(j) = 1
                /\ history[i].ret = history[j].ret

\* C6 as amended: with a deterministic wrapped analyzer the two calls return
\* equal results; over a map cache the second call invokes the wrapped
\* analyzer exactly when the first returned an error (so the analyzer runs
\* once when the first call missed and succeeded, never when the operation
\* was cached beforehand, twice when it fails); over NoCache both calls
\* invoke it.
C6_TwiceInvokesOnceOnSuccess ==
    Deterministic =>
        \A i \in Calls : \A j \in Calls :
            Twice(i, j) =>
                /\ history[i].ret = history[j].ret
                /\ cache_kind = "Map" => (history[j].invoked <=> ~history[i].ret.ok)
                /\ cache_kind = "NoCache" => (history[i].invoked /\ history[j].invoked)

\* Over a map cache the first of two successive perform_operation calls
\* invoked the wrapped analyzer and the second returned the same result
\* without invoking it.
C6_Witness ==
    /\ cache_kind = "Map"
    /\ Deterministic
    /\ \E i \in Calls : \E j \in Calls :
         /\ Twice(i, j)
         /\ history[i].invoked /\ history[i].ret.ok
         /\ ~history[j].invoked
         /\ history[j].ret = history[i].ret

\* C7 as claimed: over a map cache, whatever the sequence or interleaving of
\* calls, the wrapped analyzer is executed at most once per operation.
C7_AtMostOnce ==
    cache_kind = "Map" => \A op \in Operations : Executions(op) <= 1

\* C7 as amended: over a map cache, once a call for an operation has returned
\* Ok, no call for that operation that starts afterwards executes the wrapped
\* analyzer.  (Calls that overlap can each execute it, and so can a call that
\* follows one that returned an error.)
C7_NotAfterSuccess ==
    cache_kind = "Map" =>
        \A i \in Calls : history[i].ret.ok =>
            /\ \A j \in Calls :
                 (After(i, j) /\ history[j].op = history[i].op) => ~history[j].invoked
            /\ \A t \in Executing(history[i].op) : th[t].seen < i

\* Callers sharing a lock-wrapped map cache: ensure_operation_performed
\* executed the wrapped analyzer and returned Ok, and a later
\* perform_operation for the same operation returned without executing it.
C7_Witness ==
    /\ cache_kind = "Map" /\ lock_kind # "none"
    /\ \E i \in Calls : \E j \in Calls :
         /\ After(i, j)
         /\ history[i].op = history[j].op
         /\ history[i].call = "ensure_operation_performed"
         /\ history[i].invoked /\ history[i].ret.ok
         /\ history[j].call = "perform_operation"
         /\ ~history[j].invoked

\* Thread t holds the lock.
Holds(t) == lock.writer = t \/ t \in lock.readers

InCacheMethod(t) == th[t].pc \in {"lookup_locked", "put_locked"}

\* C8: with a lock-wrapped cache a thread holds the lock exactly while it is
\* inside one contains / get / put; a thread inside put excludes every other
\* thread from the cache; a thread whose wrapped analyzer call is executing
\* holds no lock; and when no thread is inside a cache method the lock is
\* free, so that a caller waiting for the cache can go on whatever analysis
\* work is in progress.
C8_CriticalSections ==
    lock_kind # "none" =>
        /\ \A t \in Threads : Holds(t) <=> InCacheMethod(t)
        /\ \A t \in Threads : \A u \in Threads \ {t} :
             th[t].pc = "put_locked" => ~InCacheMethod(u)
        /\ lock_kind = "Mutex" =>
             \A t \in Threads : \A u \in Threads \ {t} :
                 ~(InCacheMethod(t) /\ InCacheMethod(u))
        /\ \A t \in Threads : th[t].pc = "wrapped" => ~Holds(t)
        /\ (\A t \in Threads : ~InCacheMethod(t)) => lock = Unlocked

\* One thread is inside put of a lock-wrapped cache while the wrapped analyzer
\* call of another thread, for a different operation, is executing.
C8_Witness ==
    /\ lock_kind # "none"
    /\ \E t \in Threads : \E u \in Threads :
         /\ th[t].pc = "wrapped"
         /\ th[u].pc = "put_locked" /\ lock.writer = u
         /\ th[u].op # th[t].op

\* The cache holds a value for op (get yields it, contains is true).
Present(op) == cache_kind = "Map" /\ op \in DOMAIN cache

\* Thread t takes the step that leaves pc.
Leaves(t, pc) == th[t].pc = pc /\ th'[t] # th[t]

Returned == history'[Len(history')]

\* C9: perform_operation, when the cache holds a value for op, returns that
\* value without invoking the wrapped analyzer and leaves the cache as it
\* was; when it does not, it invokes the wrapped analyzer and, given a
\* result, stores it under op and returns it, so that the put leaves that
\* result under op in a map cache.
C9_PerformOperation ==
    [][\A t \in Threads : th[t].call = "perform_operation" =>
         /\ (Leaves(t, "lookup_locked") /\ Present(th[t].op)) =>
              /\ th'[t].pc = "idle"
              /\ Len(history') = Len(history) + 1
              /\ Returned.ret = Ok(cache[th[t].op])
              /\ ~Returned.invoked
              /\ cache' = cache
         /\ (Leaves(t, "lookup_locked") /\ ~Present(th[t].op)) =>
              /\ th'[t].pc = "wrapped"
              /\ history' = history
              /\ cache' = cache
         /\ (Leaves(t, "wrapped") /\ th'[t].pc # "idle") =>
              /\ th'[t].pc = "put"
              /\ cache' = cache
         /\ Leaves(t, "put_locked") =>
              /\ th'[t].pc = "idle"
              /\ Len(history') = Len(history) + 1
              /\ Returned.invoked
              /\ Returned.ret = Returned.wrapped
              /\ Returned.ret = Ok(th[t].result)
              /\ cache_kind = "Map" =>
                   /\ th[t].op \in DOMAIN cache'
                   /\ cache'[th[t].op] = th[t].result
                   /\ \A o \in DOMAIN cache' \ {th[t].op} :
                        o \in DOMAIN cache /\ cache'[o] = cache[o]
      ]_vars

\* One perform_operation call returned a cached value without invoking the
\* wrapped analyzer, another, for a different operation, invoked it and
\* returned its result, which the map cache now holds.
C9_Witness ==
    /\ cache_kind = "Map"
    /\ \E i \in Calls : \E j \in Calls :
         /\ history[i].call = "perform_operation"
         /\ history[j].call = "perform_operation"
         /\ history[i].op # history[j].op
         /\ ~history[i].invoked /\ history[i].ret.ok
         /\ history[j].invoked /\ history[j].ret.ok
         /\ history[j].ret = history[j].wrapped
         /\ Present(history[j].op)
         /\ cache[history[j].op] = history[j].ret.value

\* C10: ensure_operation_performed, whenever the cache contains op, returns
\* Ok without invoking the wrapped analyzer and leaves the cache as it was,
\* whatever value is stored under op.
C10_EnsureChecksPresence ==
    [][\A t \in Threads :
         (/\ th[t].call = "ensure_operation_performed"
          /\ Leaves(t, "lookup_locked")
          /\ Present(th[t].op)) =>
              /\ th'[t].pc = "idle"
              /\ Len(history') = Len(history) + 1
              /\ Returned.ret = Ok(0)
              /\ ~Returned.invoked
              /\ cache' = cache
      ]_vars

\* ensure_operation_performed returned Ok without invoking the wrapped
\* analyzer for each of two operations under which the cache holds different
\* values.
C10_Witness ==
    /\ cache_kind = "Map"
    /\ \E i \in Calls : \E j \in Calls :
         /\ history[i].call = "ensure_operation_performed"
         /\ history[j].call = "ensure_operation_performed"
         /\ ~history[i].invoked /\ history[i].ret = Ok(0)
         /\ ~history[j].invoked /\ history[j].ret = Ok(0)
         /\ Present(history[i].op) /\ Present(history[j].op)
         /\ cache[history[i].op] # cache[history[j].op]

(***************************************************************************)
(* SpecPaths: add_directory / add_file calls and what they return          *)
(***************************************************************************)
\* The paths of up to n components.
RECURSIVE PathsUpTo(_)
PathsUpTo(n) ==
    IF n = 0 THEN {<<>>}
    ELSE LET shorter == PathsUpTo(n - 1)
         IN  shorter \cup {Append(p, c) : p \in shorter, c \in Components}

CallPaths == PathsUpTo(MaxDepth)

\* The number of entries, files and directories, below `tree`.
RECURSIVE PendingCount(_)
PendingCount(tree) ==
    IF DOMAIN tree = {} THEN 0
    ELSE LET name == CHOOSE n \in DOMAIN tree : TRUE
         IN  1 + PendingCount(tree[name].tree)
               + PendingCount([n \in (DOMAIN tree) \ {name} |-> tree[n]])

InitPaths == SBNew /\ RPBNew /\ CacheUnused /\ TreeUnused /\ ReaderUnused /\ KeysUnused /\ GitUnused

\* builder.add_directory(full_path), its Result kept.
CallAddDirectory ==
    /\ PendingCount(rpb_root) < MaxPending
    /\ \E full_path \in CallPaths :
         LET result == RPBAddDirectory(rpb_root, full_path)
         IN  /\ rpb_root' = result.root
             /\ rpb_last' = Called("add_directory", full_path, <<>>, result)
    /\ UNCHANGED <<rpb_tree_ids, rpb_cfg, rpb_out, sb_vars, cache_vars, tree_vars, reader_vars, keys_vars, git_vars>>

\* builder.add_file(full_path, id), its Result kept.
CallAddFile ==
    /\ PendingCount(rpb_root) < MaxPending
    /\ \E full_path \in CallPaths, id \in FileIDs :
         LET result == RPBAddFile(rpb_root, full_path, id)
         IN  /\ rpb_root' = result.root
             /\ rpb_last' = Called("add_file", full_path, id, result)
    /\ UNCHANGED <<rpb_tree_ids, rpb_cfg, rpb_out, sb_vars, cache_vars, tree_vars, reader_vars, keys_vars, git_vars>>

NextPaths == CallAddDirectory \/ CallAddFile

SpecPaths == InitPaths /\ [][NextPaths]_vars

(***************************************************************************)
(* Claims about tree ids in RelativePathBuilder::build (SpecRPB)           *)
(***************************************************************************)
\* The pending directories set_tree_id recorded no id for.
Unidentified == {d \in PendingDirs(rpb_root, <<>>) : d \notin DOMAIN rpb_tree_ids}

\* In the snapshot build returned, every pending directory has the id
\* recorded for its path, or else (with `generate`) the id computed from its
\* built tree.
IdsResolved ==
    \A d \in PendingDirs(rpb_root, <<>>) :
        LET at == SnapshotIdAt(rpb_out.trees, rpb_out.id, d)
        IN  /\ at.ok
            /\ IF d \in DOMAIN rpb_tree_ids
               THEN at.id = rpb_tree_ids[d]
               ELSE /\ rpb_cfg.generate
                    /\ at.id = GenerateTreeId(rpb_out.trees[at.id], rpb_cfg.le)

\* C11 as claimed: each pending directory gets the id recorded for its path,
\* else with `generate` the id computed from its built tree; when a directory
\* has neither, build fails with MissingTreeID.
C11_TreeIdResolution ==
    rpb_out.state # "none" =>
        /\ rpb_out.state = "ok" => IdsResolved
        /\ (Unidentified # {} /\ ~rpb_cfg.generate) =>
               rpb_out = Failure("MissingTreeID")

\* C11 as amended: when a directory has neither, build fails, with
\* MissingTreeID unless two directories that were given the same id hold
\* different trees, in which case it can fail with InconsistentDirectories
\* before it reaches the directory without an id.
C11_TreeIdResolutionOrFailure ==
    rpb_out.state # "none" =>
        /\ rpb_out.state = "ok" => IdsResolved
        /\ (Unidentified # {} /\ ~rpb_cfg.generate) =>
               /\ rpb_out.state = "err"
               /\ rpb_out.err \in {"MissingTreeID", "InconsistentDirectories"}
               /\ rpb_out.err = "InconsistentDirectories" => HasConflict

\* build, with `generate`, returned a snapshot for a hierarchy in which one
\* directory has a recorded id and another has none.
C11_Witness ==
    /\ rpb_out.state = "ok"
    /\ rpb_cfg.generate
    /\ Unidentified # {}
    /\ \E d \in PendingDirs(rpb_root, <<>>) : d \in DOMAIN rpb_tree_ids

(***************************************************************************)
(* Claims about add_file / add_directory (checked under SpecPaths)         *)
(***************************************************************************)
NoEntry == [kind |-> "", id |-> <<>>, tree |-> <<>>]

\* The pending entry at `path` below `tree`; NoEntry when there is none (a
\* name is missing, an ancestor is a file, a component is not a name).
RECURSIVE EntryAt(_, _)
EntryAt(tree, path) ==
    IF path = <<>> THEN PendingDir(tree)
    ELSE IF Head(path) \notin DOMAIN tree THEN NoEntry
    ELSE IF Len(path) = 1 THEN tree[Head(path)]
    ELSE IF tree[Head(path)].kind = "Tree"
    THEN EntryAt(tree[Head(path)].tree, Tail(path))
    ELSE NoEntry

\* The paths of all pending entries below `tree`.
RECURSIVE PendingPaths(_, _)
PendingPaths(tree, prefix) ==
    {Append(prefix, n) : n \in DOMAIN tree} \cup
    UNION {PendingPaths(tree[n].tree, Append(prefix, n)) :
             n \in {m \in DOMAIN tree : tree[m].kind = "Tree"}}

\* The proper, non-empty prefixes of a path.
Ancestors(path) == {SubSeq(path, 1, k) : k \in 1..(Len(path) - 1)}

\* Every component is a name and there is at least one.
NormalPath(path) ==
    path # <<>> /\ \A k \in 1..Len(path) : path[k] # ParentDir

\* An ancestor of `path` is a pending file.
FileAmongAncestors(tree, path) ==
    \E a \in Ancestors(path) : EntryAt(tree, a).kind = "File"

\* Something, file or directory, is pending at `path` itself.
Occupied(tree, path) == path # <<>> /\ EntryAt(tree, path).kind # ""

\* The step is the call `call`, which rpb_last' then describes.
IsCall(call) == rpb_last'.call = call /\ <<rpb_root, rpb_last>>' # <<rpb_root, rpb_last>>

\* After the step the hierarchy holds what it held, the ancestors of `path`
\* as directories, and `entry` at `path`.
Added(path, entry) ==
    /\ PendingPaths(rpb_root', <<>>) =
           PendingPaths(rpb_root, <<>>) \cup Ancestors(path) \cup {path}
    /\ \A q \in PendingPaths(rpb_root, <<>>) \ {path} :
           EntryAt(rpb_root', q).kind = EntryAt(rpb_root, q).kind
             /\ EntryAt(rpb_root', q).id = EntryAt(rpb_root, q).id
    /\ \A a \in Ancestors(path) : EntryAt(rpb_root', a).kind = "Tree"
    /\ EntryAt(rpb_root', path) = entry

\* C12 as claimed: add_file returns DuplicatePath whenever something is
\* pending at the path or an ancestor of it is a file; otherwise it succeeds,
\* having created the missing parent directories and recorded the file.
C12_AddFileDuplicatePath ==
    [][IsCall("add_file") =>
         LET path == rpb_last'.full_path
         IN  IF Occupied(rpb_root, path) \/ FileAmongAncestors(rpb_root, path)
             THEN ~rpb_last'.ok /\ rpb_last'.err = "DuplicatePath"
             ELSE rpb_last'.ok /\ Added(path, PendingFile(rpb_last'.id))
      ]_vars

\* C12 as amended: otherwise it succeeds when the path is made of names
\* only, and returns InvalidPath when the path is empty or has a component
\* that is not a name.
C12_AddFileDuplicateOrInvalid ==
    [][IsCall("add_file") =>
         LET path == rpb_last'.full_path
         IN  IF Occupied(rpb_root, path) \/ FileAmongAncestors(rpb_root, path)
             THEN ~rpb_last'.ok /\ rpb_last'.err = "DuplicatePath"
             ELSE IF NormalPath(path)
             THEN rpb_last'.ok /\ Added(path, PendingFile(rpb_last'.id))
             ELSE ~rpb_last'.ok /\ rpb_last'.err = "InvalidPath"
      ]_vars

\* add_file returned DuplicatePath for a path of three names whose first
\* name is a pending file.
C12_Witness ==
    /\ rpb_last.call = "add_file"
    /\ ~rpb_last.ok /\ rpb_last.err = "DuplicatePath"
    /\ Len(rpb_last.full_path) = 3
    /\ NormalPath(rpb_last.full_path)
    /\ EntryAt(rpb_root, <<rpb_last.full_path[1]>>).kind = "File"

C14_AddDirectoryErrors ==
    [][IsCall("add_directory") =>
         LET path == rpb_last'.full_path
         IN  (Occupied(rpb_root, path) \/ FileAmongAncestors(rpb_root, path)) =>
                 ~rpb_last'.ok
      ]_vars

(***************************************************************************)
(* More claims about SnapshotBuilder (checked under SpecSB)                *)
(***************************************************************************)
\* C15: with_id(root) fails with MissingTree exactly when no tree was added
\* under root, whatever else the builder holds: the root is looked up before
\* the stored trees are compared with the referenced ones.
C15_MissingTreeFirst ==
    sb_out.state # "none" =>
        (sb_out = Failure("MissingTree") <=> sb_arg \notin DOMAIN sb_trees)

\* with_id returned MissingTree for a builder that holds trees, one of them
\* with a Tree-kind entry naming an id that has no stored tree, but no tree
\* under the root id.
C15_Witness ==
    /\ sb_out = Failure("MissingTree")
    /\ sb_arg \notin DOMAIN sb_trees
    /\ TreeRefs(sb_trees) \ (DOMAIN sb_trees \cup {sb_arg}) # {}

(***************************************************************************)
(* SpecAddTree: add_tree calls and what they return                        *)
(***************************************************************************)
InitAddTree == SBNew /\ RPBNew /\ CacheUnused /\ TreeUnused /\ ReaderUnused /\ KeysUnused /\ GitUnused

\* The trees given with an id that is already present: an empty tree and a
\* tree with one file.
SecondTrees == {TreeNew, TreeAddFile(TreeNew, <<1>>, <<1>>).tree}

\* builder.add_tree(id, tree), its Result kept.
CallAddTree ==
    /\ Cardinality(DOMAIN sb_trees) <= MaxTrees
    /\ \E id \in IDs :
         \E tree \in IF id \in DOMAIN sb_trees THEN SecondTrees
                     ELSE {t \in AllTrees :
                             EntryCount(sb_trees) + Cardinality(DOMAIN t) <= MaxEntries} :
           LET result == SBAddTree(sb_trees, id, tree)
           IN  /\ sb_trees' = result.trees
               /\ sb_last' = AddedTree(id, tree, result)
    /\ UNCHANGED <<sb_arg, sb_out, rpb_vars, cache_vars, tree_vars, reader_vars, keys_vars, git_vars>>

NextAddTree == CallAddTree

SpecAddTree == InitAddTree /\ [][NextAddTree]_vars

(***************************************************************************)
(* Claims about add_tree (checked under SpecAddTree)                       *)
(***************************************************************************)
\* C16: add_tree(id, tree) returns DuplicateTree exactly when id is already
\* present, and then leaves the stored trees as they were; otherwise it
\* succeeds and stores the tree it was given under id, whatever the tree
\* holds, leaving the other trees as they were.
C16_AddTreeDuplicate ==
    [][<<sb_trees, sb_last>>' # <<sb_trees, sb_last>> =>
         LET id == sb_last'.id
         IN  IF id \in DOMAIN sb_trees
             THEN /\ ~sb_last'.ok /\ sb_last'.err = "DuplicateTree"
                  /\ sb_trees' = sb_trees
             ELSE /\ sb_last'.ok
                  /\ DOMAIN sb_trees' = DOMAIN sb_trees \cup {id}
                  /\ sb_trees'[id] = sb_last'.tree
                  /\ \A other \in DOMAIN sb_trees : sb_trees'[other] = sb_trees[other]
      ]_vars

\* add_tree returned DuplicateTree for a tree that differs from the one
\* stored under the id, which is still stored.
C16_Witness ==
    /\ ~sb_last.ok /\ sb_last.err = "DuplicateTree"
    /\ sb_last.id \in DOMAIN sb_trees
    /\ sb_trees[sb_last.id] # sb_last.tree
    /\ sb_trees[sb_last.id] # TreeNew

(***************************************************************************)
(* SpecTree: one Tree, add_file / add_subdirectory called with any name   *)
(***************************************************************************)
\* The names given to add_file / add_subdirectory: one is a prefix of
\* another.
TreeNames == {<<1>>, <<1, 1>>, <<2>>}

\* The ids given to them.
EntryIDs == {<<1>>, <<2>>}

InitTree == SBNew /\ RPBNew /\ CacheUnused /\ TreeUnused /\ ReaderUnused /\ KeysUnused /\ GitUnused

\* tree.add_file(name, id)
CallTreeAddFile ==
    /\ \E name \in TreeNames, id \in EntryIDs :
         LET result == OrderedTreeAddFile(t_entries, name, id)
         IN  /\ t_entries' = result.entries
             /\ t_inserted' = IF result.ok THEN Append(t_inserted, name) ELSE t_inserted
             /\ t_last' = TreeCalled("add_file", name, id, result)
    /\ UNCHANGED <<sb_vars, rpb_vars, cache_vars, reader_vars, keys_vars, git_vars>>

\* tree.add_subdirectory(name, id)
CallTreeAddSubdirectory ==
    /\ \E name \in TreeNames, id \in EntryIDs :
         LET result == OrderedTreeAddSubdirectory(t_entries, name, id)
         IN  /\ t_entries' = result.entries
             /\ t_inserted' = IF result.ok THEN Append(t_inserted, name) ELSE t_inserted
             /\ t_last' = TreeCalled("add_subdirectory", name, id, result)
    /\ UNCHANGED <<sb_vars, rpb_vars, cache_vars, reader_vars, keys_vars, git_vars>>

NextTree == CallTreeAddFile \/ CallTreeAddSubdirectory

SpecTree == InitTree /\ [][NextTree]_vars

\* The items of the iterator are in strictly ascending name order.
Ascending(items) ==
    \A i, j \in 1..Len(items) : i < j => IDLess(items[i][1], items[j][1])

\* C17: in every reachable Tree entry names are unique.  An add_file or
\* add_subdirectory call with a name the tree holds, as a file or as a
\* subdirectory, fails with DuplicateEntry and leaves the tree unchanged; any
\* other call succeeds and adds the entry of its kind.  After every call,
\* whatever the order of the insertions, iteration yields the entries in
\* strictly ascending name order, so no name comes twice.
C17_TreeNamesUniqueAscending ==
    [][LET call == t_last'
           held == {t_entries[i] : i \in 1..Len(t_entries)}
           entry == IF call.call = "add_file" THEN TreeEntryFile(call.id)
                    ELSE TreeEntryTree(call.id)
       IN  /\ IF \E e \in held : e.name = call.name
              THEN /\ ~call.ok /\ call.err = "DuplicateEntry"
                   /\ t_entries' = t_entries
              ELSE /\ call.ok
                   /\ {t_entries'[i] : i \in 1..Len(t_entries')}
                        = held \cup {[name |-> call.name, entry |-> entry]}
                   /\ Len(t_entries') = Len(t_entries) + 1
           /\ Ascending(TreeIter(t_entries'))]_vars

\* Three entries were inserted in an order that is not the name order, and
\* an add_subdirectory call with the name of a file of the tree failed.
C17_Witness ==
    /\ Len(t_entries) = 3
    /\ ~Ascending([i \in 1..Len(t_inserted) |-> <<t_inserted[i]>>])
    /\ t_last.call = "add_subdirectory"
    /\ ~t_last.ok /\ t_last.err = "DuplicateEntry"
    /\ \E i \in 1..Len(t_entries) :
         t_entries[i].name = t_last.name /\ t_entries[i].entry.kind = "File"

\* The tree that results from inserting the (name, entry) pairs into a new
\* Tree in the order given, each with the call of its kind, and whether
\* every call returned Ok.
RECURSIVE Rebuild(_)
Rebuild(pairs) ==
    IF pairs = <<>> THEN [ok |-> TRUE, entries |-> TreeNew]
    ELSE LET before == Rebuild(SubSeq(pairs, 1, Len(pairs) - 1))
             pair == pairs[Len(pairs)]
             result == IF pair.entry.kind = "File"
                       THEN OrderedTreeAddFile(before.entries, pair.name, pair.entry.id)
                       ELSE OrderedTreeAddSubdirectory(before.entries, pair.name, pair.entry.id)
         IN  [ok |-> before.ok /\ result.ok, entries |-> result.entries]

\* C18: tree-hash canonicality.  For every reachable tree T, inserting the
\* entries of T into a new tree in any permutation succeeds and yields a
\* tree equal to T with the same generate_tree_id as T (on a host of either
\* byte order), and that id is the one of the hash input built from the
\* entries in name order: name length, name, kind byte, id length, id.
C18_TreeHashCanonical ==
    \A order \in Orders({t_entries[i] : i \in 1..Len(t_entries)}) :
        LET rebuilt == Rebuild(order)
        IN  /\ rebuilt.ok
            /\ TreeOf(rebuilt.entries) = TreeOf(t_entries)
            /\ TreeIter(rebuilt.entries) = TreeIter(t_entries)
            /\ \A le \in BOOLEAN :
                 /\ GenerateTreeIdIter(rebuilt.entries, le) = GenerateTreeIdIter(t_entries, le)
                 /\ GenerateTreeIdIter(rebuilt.entries, le)
                      = GenerateTreeId(TreeOf(t_entries), le)

\* A tree of three entries, a file and a subdirectory among them, that was
\* built in descending name order.
C18_Witness ==
    /\ Len(t_entries) = 3
    /\ \E i, j \in 1..Len(t_entries) :
         t_entries[i].entry.kind = "File" /\ t_entries[j].entry.kind = "Tree"
    /\ \A i, j \in 1..Len(t_inserted) :
         i < j => IDLess(t_inserted[j], t_inserted[i])

\* C20: generate_tree_id of a tree is the same on every host: the id a
\* little-endian host generates for a reachable tree is the id a big-endian
\* host generates for it, the length prefixes being encoded in one fixed
\* byte order.
C20_TreeIdSameOnEveryHost ==
    GenerateTreeId(TreeOf(t_entries), TRUE) = GenerateTreeId(TreeOf(t_entries), FALSE)

(***************************************************************************)
(* SpecReader: generate_file_id_from_reader over a reader that delivers   *)
(* its content in reads of any size                                        *)
(***************************************************************************)
Bytes == {1, 2}

\* The contents a reader can hold.
Contents == UNION {[1..n -> Bytes] : n \in 0..MaxContent}

InitReader ==
    /\ SBNew /\ RPBNew /\ CacheUnused /\ TreeUnused /\ KeysUnused /\ GitUnused
    /\ \E content \in Contents : ReaderNew(content)

\* One turn of the loop with bytes left: r.read(&mut buf[..]) returns
\* Ok(bytes_read) with 0 < bytes_read <= buf.len(), and the hasher is updated.
Read ==
    /\ rd_out = NoFileId
    /\ rd_left # <<>>
    /\ \E bytes_read \in 1..(IF Len(rd_left) < BufLen THEN Len(rd_left) ELSE BufLen) :
         LET buf == ReadInto(rd_buf, SubSeq(rd_left, 1, bytes_read))
         IN  /\ rd_buf' = buf
             /\ rd_hasher' = HasherUpdate(rd_hasher, buf, bytes_read)
             /\ rd_left' = SubSeq(rd_left, bytes_read + 1, Len(rd_left))
             /\ rd_reads' = Append(rd_reads, bytes_read)
    /\ UNCHANGED <<rd_content, rd_out, sb_vars, rpb_vars, cache_vars, tree_vars, keys_vars, git_vars>>

\* The turn at the end of the content: read returns Ok(0), the loop breaks
\* and the function returns Ok(finalize_id("v0:", hasher)).
ReadEnd ==
    /\ rd_out = NoFileId
    /\ rd_left = <<>>
    /\ rd_reads' = Append(rd_reads, 0)
    /\ rd_out' = OkFileId(FinalizeId(rd_hasher))
    /\ UNCHANGED <<rd_content, rd_left, rd_buf, rd_hasher, sb_vars, rpb_vars,
                   cache_vars, tree_vars, keys_vars, git_vars>>

\* A turn in which read returns Err(e): `?` returns it.
ReadFails ==
    /\ rd_out = NoFileId
    /\ rd_out' = IoError
    /\ UNCHANGED <<rd_content, rd_left, rd_buf, rd_hasher, rd_reads, sb_vars,
                   rpb_vars, cache_vars, tree_vars, keys_vars, git_vars>>

NextReader == Read \/ ReadEnd \/ ReadFails

SpecReader == InitReader /\ [][NextReader]_vars

\* C19: for every content b and every way the reader delivers b in non-empty
\* reads followed by a zero-length read, the bytes fed to the hasher so far
\* followed by the bytes not yet delivered are b at every point, and the
\* call returns Ok with the id generate_file_id(b) gives, the hasher having
\* been fed exactly b.
C19_ReaderMatchesBuffered ==
    /\ rd_out.state # "err" => rd_hasher \o rd_left = rd_content
    /\ rd_out.state = "ok" =>
         /\ rd_left = <<>>
         /\ rd_hasher = rd_content
         /\ rd_out.id = GenerateFileId(rd_content)

\* The call returned an id after the reader delivered three bytes as a full
\* buffer, then a shorter read, then the zero-length read.
C19_Witness ==
    /\ rd_out.state = "ok"
    /\ Len(rd_content) = 3
    /\ rd_reads = <<BufLen, 3 - BufLen, 0>>

(***************************************************************************)
(* SpecKeys: put and get on a BTreeMap / HashMap cache keyed by Operation  *)
(***************************************************************************)
\* The operations used as keys: one, and those that differ from it in one
\* field.
BaseOperation == [kind |-> "File", id |-> <<1>>, additional |-> 0]
KeyOperations ==
    {BaseOperation}
      \cup {[BaseOperation EXCEPT !.kind = "Tree"],
            [BaseOperation EXCEPT !.id = <<2>>],
            [BaseOperation EXCEPT !.additional = 1]}

InitKeys ==
    /\ SBNew /\ RPBNew /\ CacheUnused /\ TreeUnused /\ ReaderUnused /\ GitUnused
    /\ \E kind \in {"BTreeMap", "HashMap"} : KeysNew(kind)

\* cache.put(op, result)
KeysPut ==
    /\ Len(km_puts) < MaxPuts
    /\ \E op \in KeyOperations, result \in Results :
         /\ km_entries' = MapCachePut(km_kind, km_entries, op, result)
         /\ km_puts' = Append(km_puts, [op |-> op, result |-> result])
    /\ UNCHANGED <<km_kind, km_get, sb_vars, rpb_vars, cache_vars, tree_vars, reader_vars, git_vars>>

\* cache.get(op)
KeysGet ==
    /\ \E op \in KeyOperations :
         km_get' = GetCalled(op, Len(km_puts), MapCacheGet(km_kind, km_entries, op))
    /\ UNCHANGED <<km_kind, km_entries, km_puts, sb_vars, rpb_vars, cache_vars,
                   tree_vars, reader_vars, git_vars>>

NextKeys == KeysPut \/ KeysGet

SpecKeys == InitKeys /\ [][NextKeys]_vars

\* The puts under op among the first n.
PutsUnder(op, n) == {i \in 1..n : km_puts[i].op = op}

\* What get(op) is to return after the first n puts: the value of the last
\* of them made under op.
LastPut(op, n) ==
    IF PutsUnder(op, n) = {} THEN None
    ELSE Some(km_puts[CHOOSE i \in PutsUnder(op, n) :
                          \A j \in PutsUnder(op, n) : j <= i].result)

\* C21: two operations are equal, as keys of either map, iff kind, id and
\* additional are all equal; so after any sequence of puts into a map cache
\* get(op) returns the value last put under an operation with the three
\* fields of op, and none when there was no such put, whatever was put under
\* operations that differ from op in a field.
C21_OperationIdentityIsTheKey ==
    /\ \A a \in KeyOperations : \A b \in KeyOperations :
         /\ OperationEq(a, b) <=> a = b
         /\ OperationCmp(a, b) = "Equal" <=> a = b
    /\ km_get.called => km_get.ret = LastPut(km_get.op, km_get.after)
    /\ \A op \in KeyOperations :
         /\ MapCacheGet(km_kind, km_entries, op) = LastPut(op, Len(km_puts))
         /\ MapCacheContains(km_kind, km_entries, op) <=> PutsUnder(op, Len(km_puts)) # {}

\* A value was put under op, then another value under two operations that
\* differ from op in one field each, one of them in `additional`, and get(op)
\* returned the first value.
C21_Witness ==
    /\ km_get.called /\ km_get.after = 3
    /\ km_puts[1].op = km_get.op
    /\ km_puts[2].op = [km_get.op EXCEPT !.additional = 1 - @]
    /\ km_puts[3].op # km_get.op /\ km_puts[3].op # km_puts[2].op
    /\ km_puts[2].result # km_puts[1].result
    /\ km_puts[3].result # km_puts[1].result
    /\ km_get.ret = Some(km_puts[1].result)

(***************************************************************************)
(* More claims about add_directory / add_file (checked under SpecPaths)    *)
(***************************************************************************)
\* The step is an add_directory or add_file call.
IsPathCall == IsCall("add_directory") \/ IsCall("add_file")

\* The final segment of the path, or of one of its ancestors, cannot be
\* extracted: the path is empty, or it or an ancestor ends in "..".
NoFinalSegment(path) ==
    \/ path = <<>>
    \/ \E a \in Ancestors(path) \cup {path} : a[Len(a)] = ParentDir

\* C22 as claimed: add_file and add_directory fail with InvalidPath whenever
\* the final segment of the path, or of one of its ancestor paths, cannot be
\* extracted.
C22_InvalidPath ==
    [][IsPathCall =>
         (NoFinalSegment(rpb_last'.full_path) =>
              ~rpb_last'.ok /\ rpb_last'.err = "InvalidPath")
      ]_vars

\* C22 as amended: they fail then, with InvalidPath unless an ancestor of
\* the path is a pending file, in which case they fail with DuplicatePath;
\* and they return InvalidPath in no other case.
C22_InvalidPathUnlessFileAncestor ==
    [][IsPathCall =>
         LET path == rpb_last'.full_path
         IN  /\ NoFinalSegment(path) =>
                  /\ ~rpb_last'.ok
                  /\ rpb_last'.err = IF FileAmongAncestors(rpb_root, path)
                                     THEN "DuplicatePath" ELSE "InvalidPath"
             /\ (~rpb_last'.ok /\ rpb_last'.err = "InvalidPath") => NoFinalSegment(path)
      ]_vars

\* add_directory returned InvalidPath for a path of three components whose
\* last is a name and whose second is "..".
C22_Witness ==
    /\ rpb_last.call = "add_directory"
    /\ ~rpb_last.ok /\ rpb_last.err = "InvalidPath"
    /\ Len(rpb_last.full_path) = 3
    /\ rpb_last.full_path[2] = ParentDir
    /\ rpb_last.full_path[3] # ParentDir

(***************************************************************************)
(* Snapshot::render (checked on the snapshots of SpecSB)                   *)
(***************************************************************************)
Rendered == Render(sb_out.id, sb_out.trees)

\* The places of the "tree {id}" lines of the rendering, and the ids they
\* name in the order of the lines.
TreeLines(lines) == {i \in 1..Len(lines) : Len(lines[i]) = 2 /\ lines[i][1] = "tree"}

\* The entry lines that follow the tree line at place i, up to the next
\* line that is not one.
EntryLines(lines, i) ==
    {j \in (i + 1)..Len(lines) :
        \A k \in (i + 1)..j : Len(lines[k]) = 4 /\ lines[k][1] = "  "}

\* The snapshot of the test can_create_snapshot (ids and names as their
\* ASCII characters), as build returns it, and the text the test expects.
Ch_a == <<97>>
Ch_b == <<98>>
Ch_c_py == <<99, 46, 112, 121>>
Ch_d_py == <<100, 46, 112, 121>>
Id_a == <<91, 97, 93>>
Id_b == <<91, 98, 93>>
Id_root == <<91, 114, 111, 111, 116, 93>>
Id_c_py == <<91>> \o Ch_c_py \o <<93>>
Id_d_py == <<91>> \o Ch_d_py \o <<93>>

TestSnapshots ==
    RPBBuild(RPBAddFile(RPBAddFile(<<>>, <<Ch_a, Ch_b, Ch_c_py>>, Id_c_py).root,
                        <<Ch_a, Ch_b, Ch_d_py>>, Id_d_py).root,
             RPBSetTreeId(RPBSetTreeId(RPBSetTreeId(<<>>, <<>>, Id_root),
                                       <<Ch_a>>, Id_a),
                          <<Ch_a, Ch_b>>, Id_b),
             [generate |-> FALSE, le |-> FALSE])

TestRendering ==
    << <<"root", Id_root>>,
       <<>>,
       <<"tree", Id_a>>,
       <<"  ", Ch_b, "tree", Id_b>>,
       <<>>,
       <<"tree", Id_b>>,
       <<"  ", Ch_c_py, "file", Id_c_py>>,
       <<"  ", Ch_d_py, "file", Id_d_py>>,
       <<>>,
       <<"tree", Id_root>>,
       <<"  ", Ch_a, "tree", Id_a>> >>

\* C23: the rendering of a snapshot is a header line with the root
\* identifier, then one block per stored tree in ascending tree-identifier
\* order, each an empty line, the tree's line and one line per entry in
\* ascending name order giving name, kind (file / tree) and identifier, and
\* nothing else; the snapshot of files a/b/c.py and a/b/d.py with the tree
\* ids [root], [a], [b] renders the blocks [a], [b], [root] in that order,
\* b as tree [b] under [a] and both files under [b].
C23_RenderIsSorted ==
    /\ \A s \in TestSnapshots : s.state = "ok" /\ Render(s.id, s.trees) = TestRendering
    /\ sb_out.state = "ok" =>
         LET lines == Rendered
             heads == TreeLines(lines)
         IN  /\ lines[1] = <<"root", sb_out.id>>
             /\ {lines[i][2] : i \in heads} = DOMAIN sb_out.trees
             /\ \A i \in heads : \A j \in heads : i < j => IDLess(lines[i][2], lines[j][2])
             /\ \A i \in heads :
                  LET tree == sb_out.trees[lines[i][2]]
                      block == EntryLines(lines, i)
                  IN  /\ lines[i - 1] = <<>>
                      /\ {<<lines[j][2], lines[j][3], lines[j][4]>> : j \in block}
                           = {<<n, IF tree[n].kind = "File" THEN "file" ELSE "tree",
                                tree[n].id>> : n \in DOMAIN tree}
                      /\ \A j \in block : \A k \in block :
                           j < k => IDLess(lines[j][2], lines[k][2])
             /\ Len(lines) = 1 + 2 * Cardinality(heads)
                              + Cardinality(UNION {EntryLines(lines, i) : i \in heads})

\* A returned snapshot whose root tree has a file and a sub-directory and an
\* id greater than that of the sub-directory's tree: the root's block is
\* rendered last.
C23_Witness ==
    /\ sb_out.state = "ok"
    /\ Cardinality(DOMAIN sb_out.trees) = 2
    /\ Cardinality(DOMAIN sb_out.trees[sb_out.id]) = 2
    /\ \E n \in DOMAIN sb_out.trees[sb_out.id] :
         /\ sb_out.trees[sb_out.id][n].kind = "Tree"
         /\ IDLess(sb_out.trees[sb_out.id][n].id, sb_out.id)
    /\ Rendered[Len(Rendered) - 2] = <<"tree", sb_out.id>>

PutsFor(op) ==
    {i \in Calls : history[i].op = op /\ history[i].invoked /\ history[i].wrapped.ok}

\* Under every operation some call put a result for, the map holds the
\* result of the last of these puts.
LastPutStored ==
    \A op \in Operations :
        PutsFor(op) # {} =>
            LET last == CHOOSE i \in PutsFor(op) : \A j \in PutsFor(op) : j <= i
            IN  op \in DOMAIN cache /\ cache[op] = history[last].wrapped.value

\* Calls i and j overlapped: each started before the other returned.
Overlap(i, j) == i # j /\ ~After(i, j) /\ ~After(j, i)

\* C24: with a lock-wrapped map cache, in every interleaving of the callers
\* each put is applied as one step during which no other caller is inside a
\* cache method: it stores the result under the operation and changes
\* nothing else, a put for an operation the map already holds replaces the
\* value and adds no entry, and after it the map holds, for every operation,
\* the value of the last put made for it.
C24_RacingPuts ==
    [][(cache_kind = "Map" /\ lock_kind # "none") =>
         \A t \in Threads : Leaves(t, "put_locked") =>
             /\ \A u \in Threads \ {t} : ~InCacheMethod(u)
             /\ DOMAIN cache' = DOMAIN cache \cup {th[t].op}
             /\ cache'[th[t].op] = th[t].result
             /\ \A o \in DOMAIN cache' \ {th[t].op} : cache'[o] = cache[o]
             /\ th[t].op \in DOMAIN cache =>
                    Cardinality(DOMAIN cache') = Cardinality(DOMAIN cache)
             /\ LastPutStored'
      ]_vars

\* Two callers sharing a lock-wrapped map cache raced on one operation: their
\* calls overlapped, both executed the wrapped analyzer and put its result,
\* the results differ, and the map holds the one put last.
C24_Witness ==
    /\ cache_kind = "Map" /\ lock_kind # "none"
    /\ \E i \in Calls : \E j \in Calls :
         /\ i < j /\ Overlap(i, j)
         /\ history[i].op = history[j].op
         /\ history[i].invoked /\ history[i].wrapped.ok
         /\ history[j].invoked /\ history[j].wrapped.ok
         /\ history[i].wrapped # history[j].wrapped
         /\ cache[history[j].op] = history[j].wrapped.value

\* The calls for op that returned the wrapped analyzer's error.
FailedFor(op) ==
    {i \in Calls : history[i].op = op /\ history[i].invoked /\ ~history[i].wrapped.ok}

\* C30: when the wrapped analyzer's perform_operation returns an error,
\* perform_operation and ensure_operation_performed return that error in
\* the same step, with the cache (and its lock) left as it was: the cache
\* changes only in the put of a call the analyzer gave a result to, and a
\* call goes on to its put only with such a result.  No entry being stored,
\* a later call for the same operation invokes the wrapped analyzer again
\* when no other call put a result for it.
C30_WrappedErrorIsReturned ==
    [][/\ \A t \in Threads : Leaves(t, "wrapped") =>
            \/ /\ th'[t].pc = "put" /\ th'[t].result \in Results
               /\ history' = history
            \/ /\ th'[t] = Idle
               /\ history' = Append(history, Returned)
               /\ Returned.op = th[t].op /\ Returned.call = th[t].call
               /\ Returned.invoked /\ Returned.wrapped = Err /\ Returned.ret = Err
               /\ cache' = cache /\ lock' = lock
               /\ (th[t].op \in DOMAIN cache') = (th[t].op \in DOMAIN cache)
       /\ cache' # cache =>
            \E t \in Threads :
                /\ Leaves(t, "put_locked")
                /\ Returned.invoked /\ Returned.wrapped.ok /\ Returned.ret.ok
       /\ \A i \in DOMAIN history' :
            (history'[i].invoked /\ ~history'[i].wrapped.ok) <=> ~history'[i].ret.ok
       /\ \A i \in DOMAIN history' : \A j \in DOMAIN history' :
            (/\ i < j /\ history'[j].seen >= i
             /\ history'[i].op = history'[j].op
             /\ ~history'[i].ret.ok
             /\ \A k \in DOMAIN history' \ {j} :
                    ~(history'[k].op = history'[j].op /\ history'[k].ret.ok))
              => history'[j].invoked
      ]_vars

\* Over a map cache, a call got the error of the wrapped analyzer and left
\* no entry; a later call for the same operation invoked the analyzer again,
\* which this time gave a result that the cache now holds.
C30_Witness ==
    /\ cache_kind = "Map"
    /\ \E i \in Calls : \E j \in Calls :
         /\ After(i, j)
         /\ history[i].op = history[j].op
         /\ i \in FailedFor(history[i].op)
         /\ history[i].ret = Err
         /\ history[j].invoked /\ history[j].wrapped.ok
         /\ cache[history[j].op] = history[j].wrapped.value

(***************************************************************************)
(* More claims about RelativePathBuilder::build (checked under SpecRPB)    *)
(***************************************************************************)
\* Two pending directories with identical content that were given different
\* ids with set_tree_id.
DifferentIds(p, q) ==
    /\ SameContent(p, q)
    /\ p \in DOMAIN rpb_tree_ids /\ q \in DOMAIN rpb_tree_ids
    /\ rpb_tree_ids[p] # rpb_tree_ids[q]

\* The entry the snapshot holds for the directory at the (non-empty) path d
\* in the tree of its parent directory.
EntryInParent(d) ==
    LET parent == SnapshotIdAt(rpb_out.trees, rpb_out.id, SubSeq(d, 1, Len(d) - 1))
    IN  rpb_out.trees[parent.id][d[Len(d)]]

\* C25: giving different ids to two directories with identical content is
\* not an error.  build then succeeds whenever every directory can get an id
\* and no two directories with different trees resolve to one id, and the
\* snapshot it returns stores a tree under each of the two ids, each
\* referenced by the entry of its own directory in the parent tree.
C25_DifferentIdsForSameContent ==
    rpb_out.state # "none" =>
        \A p \in PendingDirs(rpb_root, <<>>) : \A q \in PendingDirs(rpb_root, <<>>) :
            DifferentIds(p, q) =>
                /\ ((Unidentified = {} \/ rpb_cfg.generate) /\ ~HasConflict) =>
                       rpb_out.state = "ok"
                /\ rpb_out.state = "ok" =>
                     /\ rpb_tree_ids[p] \in DOMAIN rpb_out.trees
                     /\ rpb_tree_ids[q] \in DOMAIN rpb_out.trees
                     /\ rpb_out.trees[rpb_tree_ids[p]] = ResolvedAt(p).tree
                     /\ rpb_out.trees[rpb_tree_ids[q]] = ResolvedAt(q).tree
                     /\ EntryInParent(p) = TreeEntryTree(rpb_tree_ids[p])
                     /\ EntryInParent(q) = TreeEntryTree(rpb_tree_ids[q])

\* build returned a snapshot for a hierarchy in which two sibling
\* directories, each holding a file, have the same content and were given
\* different ids: it stores the same tree under both.
C25_Witness ==
    /\ rpb_out.state = "ok"
    /\ \E p \in PendingDirs(rpb_root, <<>>) : \E q \in PendingDirs(rpb_root, <<>>) :
         /\ DifferentIds(p, q)
         /\ Len(p) = 1 /\ Len(q) = 1
         /\ PendingAt(rpb_root, p) # <<>>
         /\ rpb_out.trees[rpb_tree_ids[p]] = rpb_out.trees[rpb_tree_ids[q]]

\* C26: post-order assembly.  The snapshot build returns has the id resolved
\* for the root directory as its root id and stores exactly one tree for
\* each id the pending directories (the root, the declared ones and the
\* parents created for them) resolve to; the tree stored under the id of a
\* directory has exactly the directory's children as entries, a file as a
\* File entry with the id given to add_file, a sub-directory as a Tree entry
\* with the id resolved for that sub-directory.
C26_PostOrderAssembly ==
    rpb_out.state = "ok" =>
        LET res == ResolvedAll
        IN  /\ rpb_out.id = res[<<>>].id
            /\ DOMAIN rpb_out.trees = {res[d].id : d \in DOMAIN res}
            /\ \A d \in DOMAIN res :
                 LET pending == PendingAt(rpb_root, d)
                     stored == rpb_out.trees[res[d].id]
                 IN  /\ res[d].ok
                     /\ DOMAIN stored = DOMAIN pending
                     /\ \A n \in DOMAIN pending :
                          stored[n] = IF pending[n].kind = "File"
                                      THEN TreeEntryFile(pending[n].id)
                                      ELSE TreeEntryTree(res[Append(d, n)].id)

\* build returned a snapshot for a hierarchy of a root with a file and a
\* directory that was created as the parent of a file; one of the two
\* directories has a recorded id, the other a generated one.
C26_Witness ==
    /\ rpb_out.state = "ok"
    /\ \E n \in DOMAIN rpb_root : \E m \in DOMAIN rpb_root :
         /\ rpb_root[n].kind = "File"
         /\ rpb_root[m].kind = "Tree"
         /\ \E k \in DOMAIN rpb_root[m].tree : rpb_root[m].tree[k].kind = "File"
    /\ Cardinality(DOMAIN rpb_tree_ids \cap PendingDirs(rpb_root, <<>>)) = 1
    /\ Cardinality(DOMAIN rpb_out.trees) = 2

\* C27: after any sequence of add_file, add_directory and set_tree_id calls,
\* build returns a snapshot or fails with MissingTreeID or
\* InconsistentDirectories, never with DuplicateTree, MissingTree,
\* InconsistentTrees or a TreeError: the trees it hands to SnapshotBuilder
\* pass its checks.  It fails with MissingTreeID only without `generate` and
\* with a directory that has no recorded id, with InconsistentDirectories
\* only when two directories resolve to one id with different trees, and it
\* returns a snapshot when neither is the case.
C27_BuildFailures ==
    rpb_out.state # "none" =>
        /\ rpb_out.state = "err" =>
              rpb_out.err \in {"MissingTreeID", "InconsistentDirectories"}
        /\ rpb_out = Failure("MissingTreeID") => (~rpb_cfg.generate /\ Unidentified # {})
        /\ rpb_out = Failure("InconsistentDirectories") => HasConflict
        /\ rpb_out.state = "ok" <=>
              ((rpb_cfg.generate \/ Unidentified = {}) /\ ~HasConflict)

\* build failed with MissingTreeID for a hierarchy of three directories, two
\* of them with a recorded id.
C27_Witness ==
    /\ rpb_out = Failure("MissingTreeID")
    /\ Cardinality(PendingDirs(rpb_root, <<>>)) = 3
    /\ Cardinality(DOMAIN rpb_tree_ids \cap PendingDirs(rpb_root, <<>>)) = 2

(***************************************************************************)
(* Determinism of RelativePathBuilder::build (checked under SpecRPB)       *)
(***************************************************************************)
\* The declarations a caller can make: of files and directories, with
\* add_file and add_directory, and of tree ids, with set_tree_id.
PathDeclarations ==
    {[call |-> "add_directory", path |-> p, id |-> <<>>] : p \in InputPaths}
      \cup {[call |-> "add_file", path |-> p, id |-> i] : p \in InputPaths, i \in FileIDs}

IdDeclarations ==
    {[call |-> "set_tree_id", path |-> p, id |-> i] : p \in DirPaths, i \in TreeIDs}

\* The Result of a declaration of a file or a directory, with the pending
\* hierarchy it leaves.
Declare(root, d) ==
    IF d.call = "add_directory" THEN RPBAddDirectory(root, d.path)
    ELSE RPBAddFile(root, d.path, d.id)

\* From the builder as it is, two declarations that are both accepted in
\* one order are both accepted in the other, and the builder ends up the
\* same; any reordering of accepted declarations is a chain of such swaps.
\* add_file and add_directory read and write the pending hierarchy only,
\* and set_tree_id the recorded ids only: the hierarchy is swapped where no
\* id is recorded yet, and a declaration of one kind commutes with one of
\* the other.  Two ids declared for one path are not one set of
\* declarations: the later replaces the earlier.
AcceptedDeclarationsCommute ==
    /\ DOMAIN rpb_tree_ids = {} =>
         \A d \in PathDeclarations :
             LET d1 == Declare(rpb_root, d)
             IN  d1.ok =>
                   \A e \in PathDeclarations :
                       LET e2 == Declare(d1.root, e)
                           e1 == Declare(rpb_root, e)
                           d2 == Declare(e1.root, d)
                       IN  e2.ok => (e1.ok /\ d2.ok /\ d2.root = e2.root)
    /\ \A d \in IdDeclarations : \A e \in IdDeclarations :
         (d.path # e.path \/ d.id = e.id) =>
             RPBSetTreeId(RPBSetTreeId(rpb_tree_ids, d.path, d.id), e.path, e.id)
               = RPBSetTreeId(RPBSetTreeId(rpb_tree_ids, e.path, e.id), d.path, d.id)

\* Every outcome build can have from what the builder holds, one for each
\* order in which the pending entries of each directory are visited.
BuildOutcomes == RPBBuild(rpb_root, rpb_tree_ids, rpb_cfg)

\* C29 as claimed: build returns the same outcome, the same Snapshot or the
\* same error variant, whatever order the pending entries of each directory
\* are traversed in.
C29_SameOutcomeInEveryOrder ==
    rpb_out.state # "none" => BuildOutcomes = {rpb_out}

\* C29: for what the builder holds, which does not depend on the order in
\* which the accepted declarations were made, build returns the same
\* Snapshot in every traversal order or fails in every traversal order; the
\* error variant is the same too, unless two directories conflict on an id
\* and another has no id without `generate`: then it is MissingTreeID or
\* InconsistentDirectories, depending on the traversal order.
C29_DeterministicBuild ==
    /\ rpb_out.state = "none" => AcceptedDeclarationsCommute
    /\ rpb_out.state = "ok" => BuildOutcomes = {rpb_out}
    /\ rpb_out.state = "err" =>
         /\ \A o \in BuildOutcomes : o.state = "err"
         /\ \/ BuildOutcomes = {rpb_out}
            \/ /\ BuildOutcomes = {Failure("MissingTreeID"),
                                   Failure("InconsistentDirectories")}
               /\ HasConflict
               /\ Unidentified # {}
               /\ ~rpb_cfg.generate

\* A build of two sub-directories and a file, so that the root and the
\* sub-directories can be visited in several orders, returned its snapshot.
C29_Witness ==
    /\ rpb_out.state = "ok"
    /\ Cardinality(DOMAIN rpb_root) = 2
    /\ Cardinality(PendingDirs(rpb_root, <<>>)) = 3
    /\ Cardinality(DOMAIN rpb_out.trees) = 3
    /\ BuildOutcomes = {rpb_out}

(***************************************************************************)
(* ensure_operation_performed on a miss (checked under SpecCache)          *)
(***************************************************************************)
\* The ensure_operation_performed calls that missed and were given a result
\* by the wrapped analyzer.
EnsuredByAnalyzer ==
    {i \in Calls : /\ history[i].call = "ensure_operation_performed"
                   /\ history[i].invoked /\ history[i].wrapped.ok}

\* The perform_operation calls for the operation of call i that started
\* after call i had returned.
PerformsFollowing(i) ==
    {j \in Calls : /\ After(i, j)
                   /\ history[j].call = "perform_operation"
                   /\ history[j].op = history[i].op}

\* C31 as claimed: after an ensure_operation_performed that missed and
\* stored the result of the wrapped analyzer, a following perform_operation
\* for the same operation is a cache hit, whatever the cache.
C31_FollowingPerformHits ==
    \A i \in EnsuredByAnalyzer : \A j \in PerformsFollowing(i) : ~history[j].invoked

\* C31: on a miss, ensure_operation_performed invokes the wrapped analyzer's
\* perform_operation, once (a call enters the wrapped analyzer from its
\* lookup only, and leaves it for its put or its return), never its
\* ensure_operation_performed; given a result, it puts that result under the
\* operation and returns Ok(()); with a map cache a following
\* perform_operation for the same operation is then a hit, which returns the
\* result when no other call put one for the operation.
C31_EnsureOnMiss ==
    [][/\ \A t \in Threads : th[t].call = "ensure_operation_performed" =>
            /\ (Leaves(t, "lookup_locked") /\ ~Present(th[t].op)) =>
                 /\ th'[t].pc = "wrapped"
                 /\ history' = history /\ cache' = cache
            /\ th'[t].pc = "wrapped" => th[t].pc \in {"lookup_locked", "wrapped"}
            /\ Leaves(t, "wrapped") => th'[t].pc \in {"put", "idle"}
            /\ Leaves(t, "put_locked") =>
                 /\ th'[t] = Idle
                 /\ Returned.invoked
                 /\ Returned.method = "perform_operation"
                 /\ Returned.wrapped = Ok(th[t].result)
                 /\ Returned.ret = Ok(0)
                 /\ cache_kind = "Map" =>
                      /\ th[t].op \in DOMAIN cache'
                      /\ cache'[th[t].op] = th[t].result
       /\ \A i \in DOMAIN history' :
            history'[i].invoked => history'[i].method = "perform_operation"
       /\ cache_kind = "Map" =>
            (\A i \in EnsuredByAnalyzer : \A j \in PerformsFollowing(i) :
                /\ ~history[j].invoked
                /\ history[j].ret.ok
                /\ (\A k \in PutsFor(history[i].op) : k = i) =>
                       history[j].ret = history[i].wrapped)'
      ]_vars

\* Over a map cache that did not hold the operation, ensure_operation_performed
\* invoked the wrapped analyzer, and the perform_operation that followed for
\* the same operation returned the stored result without invoking it.
C31_Witness ==
    /\ cache_kind = "Map"
    /\ \E i \in EnsuredByAnalyzer : \E j \in PerformsFollowing(i) :
         /\ history[i].method = "perform_operation"
         /\ history[i].ret = Ok(0)
         /\ ~history[j].invoked
         /\ history[j].ret = history[i].wrapped
         /\ cache[history[i].op] = history[i].wrapped.value

(***************************************************************************)
(* The graph of the trees build returns (checked under SpecRPB)            *)
(***************************************************************************)
\* C33: in every Snapshot RelativePathBuilder::build returns, whatever ids
\* set_tree_id recorded, every stored tree is reached from the root by
\* following Tree-kind entries, and no stored tree is reached from itself.
C33_BuiltTreesAcyclicFromRoot ==
    rpb_out.state = "ok" =>
        /\ DOMAIN rpb_out.trees = ReachFrom(rpb_out.trees, {rpb_out.id})
        /\ Acyclic(rpb_out.trees)

\* build returned a snapshot of a directory inside a directory inside the
\* root, two of the three with an id recorded by set_tree_id: three trees,
\* one of them reached from the root through another only.
C33_Witness ==
    /\ rpb_out.state = "ok"
    /\ Cardinality(PendingDirs(rpb_root, <<>>)) = 3
    /\ Cardinality(DOMAIN rpb_tree_ids \cap PendingDirs(rpb_root, <<>>)) = 2
    /\ Cardinality(DOMAIN rpb_out.trees) = 3
    /\ DOMAIN rpb_out.trees \ ({rpb_out.id} \cup Children(rpb_out.trees[rpb_out.id])) # {}

(***************************************************************************)
(* SpecCacheFair: SpecCache with callers that go on running                *)
(***************************************************************************)
\* A step of thread t inside the cached analyzer's own code: taking the
\* lock, the cache method, the return.  Calling is up to the caller and the
\* wrapped analyzer's call need not return: neither is a step of it.
CacheStep(t) ==
    /\ LockForLookup \/ Lookup \/ LockForPut \/ Put
    /\ th'[t] # th[t]

\* Every thread that can go on does: the scheduler runs it, and lock(),
\* read() and write() return once the lock stays available.
SpecCacheFair == SpecCache /\ \A t \in Threads : WF_vars(CacheStep(t))

\* Thread t waits for the lock.
Waiting(t) ==
    /\ th[t].pc \in {"lookup", "put"}
    /\ ~CanLock(lock_kind, lock,
                LockMode(lock_kind, IF th[t].pc = "put" THEN "put"
                                    ELSE LookupMethod(th[t].call)))

IdPaths == {<<>>, <<<<1>>>>, <<<<2>>>>, <<<<1>>, <<1>>>>}

InitIds == SBNew /\ RPBNew /\ CacheUnused /\ TreeUnused /\ ReaderUnused /\ KeysUnused /\ GitUnused

\* builder.add_directory(full_path)
DeclareDirectory ==
    /\ rpb_out.state = "none"
    /\ \E full_path \in IdPaths :
         rpb_root' = RPBAddDirectory(rpb_root, full_path).root
    /\ UNCHANGED <<rpb_tree_ids, rpb_cfg, rpb_last, rpb_out, sb_vars, cache_vars, tree_vars, reader_vars, keys_vars, git_vars>>

\* builder.add_file(full_path, id)
DeclareFile ==
    /\ rpb_out.state = "none"
    /\ \E full_path \in IdPaths, id \in FileIDs :
         rpb_root' = RPBAddFile(rpb_root, full_path, id).root
    /\ UNCHANGED <<rpb_tree_ids, rpb_cfg, rpb_last, rpb_out, sb_vars, cache_vars, tree_vars, reader_vars, keys_vars, git_vars>>

\* What HashMap::insert returns in set_tree_id, and set_tree_id drops: the id
\* the path had.
Replaced(tree_ids, full_path) ==
    IF full_path \in DOMAIN tree_ids
    THEN [some |-> TRUE, id |-> tree_ids[full_path]]
    ELSE [some |-> FALSE, id |-> <<>>]

\* builder.set_tree_id(full_path, id), which returns nothing: the call is
\* kept with the id it replaced.
CallSetTreeId ==
    /\ rpb_out.state = "none"
    /\ \E full_path \in IdPaths, id \in TreeIDs :
         /\ Cardinality(DOMAIN rpb_tree_ids \cup {full_path}) <= MaxTreeIds
         /\ rpb_tree_ids' = RPBSetTreeId(rpb_tree_ids, full_path, id)
         /\ rpb_last' = [call |-> "set_tree_id", full_path |-> full_path, id |-> id,
                         ok |-> TRUE, err |-> "",
                         replaced |-> Replaced(rpb_tree_ids, full_path)]
    /\ UNCHANGED <<rpb_root, rpb_cfg, rpb_out, sb_vars, cache_vars, tree_vars, reader_vars, keys_vars, git_vars>>

NextIds == DeclareDirectory \/ DeclareFile \/ CallSetTreeId \/ Build

SpecIds == InitIds /\ [][NextIds]_vars

\* The recorded ids build_tree can look up: those of the pending directories.
IdsOfPendingDirs ==
    [p \in DOMAIN rpb_tree_ids \cap PendingDirs(rpb_root, <<>>) |-> rpb_tree_ids[p]]

\* C35: set_tree_id never fails and leaves the pending hierarchy as it was:
\* it records the id under the path, in place of an id recorded before, and
\* changes no other path's id.  An id recorded for a path that is no pending
\* directory when build runs has no effect: build has the outcomes it has
\* with the ids of the pending directories alone.  The id given last for a
\* path is the one the snapshot gives the directory.
C35_SetTreeId ==
    /\ [](rpb_out.state # "none" =>
            /\ RPBBuild(rpb_root, rpb_tree_ids, rpb_cfg)
                 = RPBBuild(rpb_root, IdsOfPendingDirs, rpb_cfg)
            /\ (/\ rpb_out.state = "ok"
                /\ rpb_last.call = "set_tree_id"
                /\ rpb_last.full_path \in PendingDirs(rpb_root, <<>>)) =>
                   SnapshotIdAt(rpb_out.trees, rpb_out.id, rpb_last.full_path)
                     = [ok |-> TRUE, id |-> rpb_last.id])
    /\ [][rpb_last' # rpb_last =>
            /\ rpb_last'.call = "set_tree_id" /\ rpb_last'.ok
            /\ rpb_root' = rpb_root
            /\ DOMAIN rpb_tree_ids' = DOMAIN rpb_tree_ids \cup {rpb_last'.full_path}
            /\ rpb_tree_ids'[rpb_last'.full_path] = rpb_last'.id
            /\ \A q \in DOMAIN rpb_tree_ids \ {rpb_last'.full_path} :
                   rpb_tree_ids'[q] = rpb_tree_ids[q]
      ]_vars

\* set_tree_id was called for a directory that already had another id, and
\* for a path that is a file; the snapshot build returned gives the
\* directory the id given last.
C35_Witness ==
    /\ rpb_out.state = "ok"
    /\ rpb_last.call = "set_tree_id"
    /\ rpb_last.replaced.some /\ rpb_last.replaced.id # rpb_last.id
    /\ rpb_last.full_path \in PendingDirs(rpb_root, <<>>) \ {<<>>}
    /\ DOMAIN rpb_tree_ids \ PendingDirs(rpb_root, <<>>) # {}
    /\ SnapshotIdAt(rpb_out.trees, rpb_out.id, rpb_last.full_path).id = rpb_last.id

(***************************************************************************)
(* NoCache (checked under SpecCache)                                       *)
(***************************************************************************)
\* The calls over the cache that were given a result by the wrapped analyzer
\* and so put it.
CallsThatPut == {i \in Calls : history[i].invoked /\ history[i].wrapped.ok}

\* C36: NoCache always misses.  Whatever was put, contains is false and get
\* returns nothing for every operation, so that over NoCache every lookup of
\* perform_operation and ensure_operation_performed goes on to the wrapped
\* analyzer and every call that returned has invoked it.
C36_NoCacheAlwaysMisses ==
    /\ [](cache_kind = "NoCache" =>
            /\ \A op \in Operations :
                   /\ ~CacheContains(cache_kind, cache, op)
                   /\ CacheGet(cache_kind, cache, op) = None
            /\ \A i \in Calls : history[i].invoked)
    /\ [][cache_kind = "NoCache" =>
            \A t \in Threads :
                /\ Leaves(t, "lookup_locked") =>
                       th'[t].pc = "wrapped" /\ history' = history
                /\ Leaves(t, "put_locked") => cache' = cache
      ]_vars

\* Over NoCache a perform_operation invoked the wrapped analyzer and put its
\* result; the ensure_operation_performed that followed for the same
\* operation invoked the wrapped analyzer again.
C36_Witness ==
    /\ cache_kind = "NoCache"
    /\ \E i \in CallsThatPut : \E j \in Calls :
         /\ After(i, j)
         /\ history[i].op = history[j].op
         /\ history[i].call = "perform_operation"
         /\ history[j].call = "ensure_operation_performed"
         /\ history[j].invoked

(***************************************************************************)
(* git.rs: Snapshot::from_git_tree                                         *)
(***************************************************************************)
\* "git:sha1:"
GitPrefix == <<103, 105, 116, 58, 115, 104, 97, 49, 58>>

\* id_for_oid: the prefix, then the bytes of the oid in lower-case
\* hexadecimal.  An oid is one byte here (twenty in git).
IdForOid(prefix, oid) == prefix \o <<HexDigit(oid \div 16), HexDigit(oid % 16)>>

\* ID::for_git_blob / ID::for_git_tree
ForGitBlob(oid) == IdForOid(GitPrefix, oid)
ForGitTree(oid) == IdForOid(GitPrefix, oid)

\* What a worklist step of from_git_tree has so far: the Tree it fills, the
\* worklist, the oids enqueued; or the error it returns.
Visiting(tree, to_visit, enqueued) ==
    [ok |-> TRUE, err |-> "", tree |-> tree, to_visit |-> to_visit, enqueued |-> enqueued]
VisitErr(err, to_visit, enqueued) ==
    [ok |-> FALSE, err |-> err, tree |-> <<>>, to_visit |-> to_visit, enqueued |-> enqueued]

\* A mutant of Enqueue: a subtree is pushed each time an entry names it.
Enqueue_EveryEntry(to_visit, enqueued, oid) ==
    [to_visit |-> Append(to_visit, oid), enqueued |-> enqueued \cup {oid}]

\* Lines 63-65: a subtree is pushed on the worklist when trees_enqueued did
\* not hold its oid yet.
Enqueue(to_visit, enqueued, oid) ==
    IF oid \notin enqueued
    THEN [to_visit |-> Append(to_visit, oid), enqueued |-> enqueued \cup {oid}]
    ELSE [to_visit |-> to_visit, enqueued |-> enqueued]

\* The loop of lines 60-73 over the entries of git_tree still to read
\* (`names`, in the order of the git tree: by name).  entry.to_object fails
\* for an entry whose object the repository does not hold.
RECURSIVE GitTreeEntries(_, _, _, _)
GitTreeEntries(repo, git_tree, names, st) ==
    IF names = <<>> \/ ~st.ok THEN st
    ELSE LET name == Head(names)
             entry == git_tree[name]
         IN  IF entry.type = "tree" /\ entry.oid \notin DOMAIN repo
             THEN VisitErr("GitError", st.to_visit, st.enqueued)
             ELSE IF entry.type = "tree"
             THEN LET pushed == Enqueue(st.to_visit, st.enqueued, entry.oid)
                      added == TreeAddSubdirectory(st.tree, name, ForGitTree(entry.oid))
                  IN  IF ~added.ok
                      THEN VisitErr("TreeError", pushed.to_visit, pushed.enqueued)
                      ELSE GitTreeEntries(repo, git_tree, Tail(names),
                                          Visiting(added.tree, pushed.to_visit,
                                                   pushed.enqueued))
             ELSE LET added == TreeAddFile(st.tree, name, ForGitBlob(entry.oid))
                  IN  IF ~added.ok
                      THEN VisitErr("TreeError", st.to_visit, st.enqueued)
                      ELSE GitTreeEntries(repo, git_tree, Tail(names),
                                          Visiting(added.tree, st.to_visit, st.enqueued))

(***************************************************************************)
(* SpecGit: from_git_tree on the trees of a repository                     *)
(***************************************************************************)
\* The entries the git tree `oid` can have: a blob, or a tree with a greater
\* oid (an oid is the hash of the content, so no tree holds itself), which
\* the repository holds or not.
GitEntriesOf(oid) ==
    {[type |-> "blob", oid |-> 0]}
      \cup {[type |-> "tree", oid |-> o] : o \in (oid + 1)..MaxOid}

GitTreesOf(oid) == UNION {[N -> GitEntriesOf(oid)] : N \in SUBSET Names}

\* The repositories that hold the trees with the oids of S.
RECURSIVE ReposOver(_)
ReposOver(S) ==
    IF S = {} THEN {<<>>}
    ELSE LET oid == CHOOSE o \in S : \A q \in S : q <= o
         IN  {MapInsert(repo, oid, tree) :
                repo \in ReposOver(S \ {oid}), tree \in GitTreesOf(oid)}

GitRepos == UNION {ReposOver(S \cup {1}) : S \in SUBSET (1..MaxOid)}

\* The tree from_git_tree is given: the one with the least oid.
RootOid(repo) == CHOOSE o \in DOMAIN repo : \A q \in DOMAIN repo : o <= q

\* No call of from_git_tree yet.
InitGit ==
    /\ SBNew /\ RPBNew /\ CacheUnused /\ TreeUnused /\ ReaderUnused /\ KeysUnused
    /\ GitUnused

\* from_git_tree is called on a tree of a repository.  Lines 53-56: a new
\* builder, the given tree on the worklist and enqueued.
GitCall ==
    /\ git_repo = <<>>
    /\ \E repo \in GitRepos :
         /\ git_repo' = repo
         /\ trees_to_visit' = <<RootOid(repo)>>
         /\ trees_enqueued' = {RootOid(repo)}
    /\ UNCHANGED <<git_out, sb_vars, rpb_vars, cache_vars, tree_vars, reader_vars,
                   keys_vars>>

\* One turn of the while loop (lines 58-77): the last tree of the worklist
\* is popped, its entries are read into a Tree, which is added to the
\* builder under the tree's id.  An error ends from_git_tree.
GitVisitTree ==
    /\ git_repo # <<>>
    /\ git_out.state = "none"
    /\ trees_to_visit # <<>>
    /\ \E oid \in {trees_to_visit[Len(trees_to_visit)]} :
       \E read \in {GitTreeEntries(git_repo, git_repo[oid], SortedNames(DOMAIN git_repo[oid]),
                                   Visiting(TreeNew,
                                            SubSeq(trees_to_visit, 1, Len(trees_to_visit) - 1),
                                            trees_enqueued))} :
       \E added \in {IF read.ok THEN SBAddTree(sb_trees, ForGitTree(oid), read.tree)
                                 ELSE [ok |-> FALSE, err |-> read.err, trees |-> sb_trees]} :
           /\ trees_to_visit' = read.to_visit
           /\ trees_enqueued' = read.enqueued
           /\ IF ~added.ok
              THEN git_out' = Failure(added.err) /\ UNCHANGED sb_trees
              ELSE sb_trees' = added.trees /\ UNCHANGED git_out
    /\ UNCHANGED <<git_repo, sb_last, sb_arg, sb_out, rpb_vars, cache_vars, tree_vars,
                   reader_vars, keys_vars>>

\* Lines 79-81, once the worklist is empty: builder.with_id(root_id).
GitWithId ==
    /\ git_repo # <<>>
    /\ git_out.state = "none"
    /\ trees_to_visit = <<>>
    /\ git_out' = SBWithId(sb_trees, ForGitTree(RootOid(git_repo)))
    /\ UNCHANGED <<git_repo, trees_to_visit, trees_enqueued, sb_vars, rpb_vars, cache_vars,
                   tree_vars, reader_vars, keys_vars>>

NextGit == GitCall \/ GitVisitTree \/ GitWithId

\* from_git_tree runs on: a call that can take a step takes it.
SpecGit == InitGit /\ [][NextGit]_vars /\ WF_vars(GitVisitTree \/ GitWithId)

(***************************************************************************)
(* Claims about from_git_tree (checked under SpecGit)                      *)
(***************************************************************************)
\* The oids of the trees the entries of the git tree `oid` name.
Subtrees(repo, oid) ==
    {repo[oid][n].oid : n \in {m \in DOMAIN repo[oid] : repo[oid][m].type = "tree"}}

\* The trees of the repository reached from the oids of `seen`.
RECURSIVE GitReach(_, _)
GitReach(repo, seen) ==
    LET more == UNION {Subtrees(repo, o) : o \in seen \cap DOMAIN repo}
    IN  IF more \subseteq seen THEN seen \cap DOMAIN repo
        ELSE GitReach(repo, seen \cup more)

\* The trees to read: those reached from the given tree.  One of them names
\* a tree the repository does not hold.
ToRead == GitReach(git_repo, {RootOid(git_repo)})
ObjectMissing == \E o \in ToRead : Subtrees(git_repo, o) \ DOMAIN git_repo # {}

\* The Tree of a git tree: a file per blob, a subdirectory per tree.
TreeOfGitTree(git_tree) ==
    [n \in DOMAIN git_tree |->
        IF git_tree[n].type = "tree" THEN TreeEntryTree(ForGitTree(git_tree[n].oid))
        ELSE TreeEntryFile(ForGitBlob(git_tree[n].oid))]

\* The oids on the worklist.
OnWorklist == {trees_to_visit[i] : i \in DOMAIN trees_to_visit}

\* C37: from_git_tree enqueues and adds each distinct git tree once, also a
\* subtree that several entries name: an oid is on the worklist at most
\* once, the enqueued trees are those on the worklist and those added, a
\* turn of the loop adds the one tree it popped, and add_tree never fails
\* with DuplicateTree.  The trees added are those reached from the given
\* tree, which satisfy the closure check of with_id: from_git_tree fails
\* only when an object cannot be read.  The loop ends for every repository.
C37_FromGitTree ==
    /\ [](git_repo # <<>> =>
          /\ \A i \in DOMAIN trees_to_visit : \A j \in DOMAIN trees_to_visit :
                trees_to_visit[i] = trees_to_visit[j] => i = j
          /\ OnWorklist \subseteq trees_enqueued
          /\ trees_enqueued \subseteq ToRead
          /\ git_out.state # "err" =>
                /\ DOMAIN sb_trees = {ForGitTree(o) : o \in trees_enqueued \ OnWorklist}
                /\ \A o \in trees_enqueued \ OnWorklist :
                       sb_trees[ForGitTree(o)] = TreeOfGitTree(git_repo[o])
          /\ git_out.state = "err" => (git_out = Failure("GitError") /\ ObjectMissing)
          /\ git_out.state = "ok" =>
                /\ ~ObjectMissing
                /\ git_out = OkSnapshot(ForGitTree(RootOid(git_repo)), sb_trees)
                /\ DOMAIN git_out.trees = {ForGitTree(o) : o \in ToRead}
                /\ DOMAIN git_out.trees = {git_out.id} \cup TreeRefs(git_out.trees))
    /\ [][sb_trees' # sb_trees =>
            /\ trees_to_visit # <<>>
            /\ ForGitTree(trees_to_visit[Len(trees_to_visit)]) \notin DOMAIN sb_trees
            /\ DOMAIN sb_trees' =
                 DOMAIN sb_trees \cup {ForGitTree(trees_to_visit[Len(trees_to_visit)])}
            /\ trees_to_visit[Len(trees_to_visit)] \notin {trees_to_visit'[i] : i \in DOMAIN trees_to_visit'}
      ]_vars
    /\ (git_repo # <<>>) ~> (git_out.state # "none")

\* from_git_tree returned the snapshot of a tree in which two entries of one
\* tree and an entry of another name the same subtree: three trees.
C37_Witness ==
    /\ git_out.state = "ok"
    /\ Cardinality(DOMAIN git_out.trees) = 3
    /\ \E o \in ToRead :
         /\ \E p \in ToRead : \E q \in ToRead :
                p # q /\ o \in Subtrees(git_repo, p) /\ o \in Subtrees(git_repo, q)
         /\ \E p \in ToRead :
                Cardinality({n \in DOMAIN git_repo[p] :
                               git_repo[p][n] = [type |-> "tree", oid |-> o]}) = 2

(***************************************************************************)
(* File-kind entries in with_id (checked under SpecSB)                     *)
(***************************************************************************)
\* The ids of the File-kind entries of the stored trees.
FileRefs(trees) ==
    {trees[t][n].id : <<t, n>> \in {<<u, m>> \in (DOMAIN trees) \X Names :
                                       m \in DOMAIN trees[u] /\ trees[u][m].kind = "File"}}

\* The stored trees that only File-kind entries name: not the root given to
\* with_id, and the id of no Tree-kind entry.
NamedByFilesOnly ==
    {t \in DOMAIN sb_trees : /\ t # sb_arg
                             /\ t \in FileRefs(sb_trees)
                             /\ t \notin TreeRefs(sb_trees)}

\* C32 as claimed: a stored tree that is not the root and that only File-kind
\* entries name makes with_id fail with InconsistentTrees.
C32_FileReferenceIsInconsistentTrees ==
    (sb_out.state # "none" /\ NamedByFilesOnly # {}) =>
        sb_out = Failure("InconsistentTrees")

\* C32: with_id counts only Tree-kind entries as references.  A stored tree
\* that is not the root and that only File-kind entries name makes with_id
\* fail: with InconsistentTrees when a tree was added under the root id,
\* with MissingTree (reported first) when none was.  A File-kind entry whose
\* id has no stored tree is no dangling reference: with_id returns the
\* snapshot whenever the stored ids are the root and the ids of the
\* Tree-kind entries.
C32_OnlyTreeEntriesCount ==
    sb_out.state # "none" =>
        /\ NamedByFilesOnly # {} =>
             sb_out = IF sb_arg \in DOMAIN sb_trees
                      THEN Failure("InconsistentTrees")
                      ELSE Failure("MissingTree")
        /\ (DOMAIN sb_trees = {sb_arg} \cup TreeRefs(sb_trees)) =>
             sb_out = OkSnapshot(sb_arg, sb_trees)

\* with_id refused a builder whose root tree names, with a File-kind entry,
\* the only other stored tree, and with another an id under which no tree is
\* stored.
C32_Witness ==
    /\ sb_out = Failure("InconsistentTrees")
    /\ sb_arg \in DOMAIN sb_trees
    /\ NamedByFilesOnly # {}
    /\ DOMAIN sb_trees = {sb_arg} \cup NamedByFilesOnly
    /\ \E n \in DOMAIN sb_trees[sb_arg] :
           /\ sb_trees[sb_arg][n].kind = "File"
           /\ sb_trees[sb_arg][n].id \in NamedByFilesOnly
    /\ FileRefs(sb_trees) \ DOMAIN sb_trees # {}

\* with_id returned a snapshot in which a File-kind entry has an id under
\* which no tree is stored.
SnapshotWithUnstoredFileId ==
    /\ sb_out.state = "ok"
    /\ FileRefs(sb_out.trees) \ DOMAIN sb_out.trees # {}

====
